---- MODULE Spec2Model ----
(***************************************************************************)
(* Filesystem-backed persistent collections (ds/persistent.py).            *)
(*                                                                         *)
(* PersistentDict (the Keyed Store) and PersistentList (the Ordered Store) *)
(* keep every element in a file of its own under a root directory and the  *)
(* element count in the metadata file root/.meta.  The model keeps the     *)
(* directory tree of each root as a value: the entry files with their      *)
(* bytes, the sub-directories, and the length recorded in .meta.  Every    *)
(* public method is one action that runs the whole method body, as a       *)
(* single writer does.                                                     *)
(***************************************************************************)
EXTENDS Integers, Sequences, FiniteSets, TLC

VARIABLES
    hashKind,   \* which hash() override the PersistentDict subclass supplies
    dict,       \* the PersistentDict root: [files, dirs, length]
    live,       \* history: key -> value of the completed set()s not yet popped/cleared
    plist,      \* the PersistentList root: [files, length]
    refList,    \* history: the in-memory reference list fed the same operations
    last,       \* the last completed call: its name, arguments and outcome
    opened,     \* the store objects constructed on the PersistentDict root
    cbuf,       \* the CircularBuffer object: [buf, r, w, count]
    cbHist,     \* history: the elements written to and returned by the buffer
    tree,       \* the Tree object: [name, max_depth, parent, children]
    proc        \* the writers of the ordered store that run step by step

vars == <<hashKind, dict, live, plist, refList, last, opened, cbuf, cbHist, tree, proc>>

\* The variables of the two stores, and those of everything else.
storeVars == <<hashKind, dict, live, plist, refList>>

nonStore == <<opened, cbuf, cbHist, tree, proc>>

\* What a variable holds in a specification that does not use its component.
Idle == "idle"

InitNonStore ==
    /\ opened = Idle
    /\ cbuf = Idle
    /\ cbHist = Idle
    /\ tree = Idle
    /\ proc = Idle

----------------------------------------------------------------------------
(* Bounds and input domains *)

NumKeys == 2
MaxUpdate == 2
MaxLen == 3
\* Cap on the length recorded in .meta (a set that raises can still count).
MaxMeta == 4
MaxExtend == 2
\* CircularBuffer: the largest backing array, and the cap on the elements a
\* run writes in total.
MaxSize == 3
MaxWritten == 6
\* Tree: the largest max_depth a tree is given.
MaxDepth == 2

Keys == 1..NumKeys
Values == {"a", "b"}

\* Python's None, and the module-level sentinel `_undefined = object()`.
None == "None"
Unset == "_undefined"
Defaults == {Unset, None} \cup Values

----------------------------------------------------------------------------
(* Paths and the pluggable hash *)

\* A path relative to the root is the sequence of its segments; Root is `root`.
Root == <<>>

Parent(fp) == SubSeq(fp, 1, Len(fp) - 1)

\* Every proper ancestor of fp, the root included.
Ancestors(fp) == {SubSeq(fp, 1, n) : n \in 0..(Len(fp) - 1)}

IsProperPrefix(p, q) == Len(p) < Len(q) /\ SubSeq(q, 1, Len(p)) = p

\* hash() is abstract in PersistentDict; a subclass overrides it.  The kinds:
\*   flat      one segment per key (md5 hexdigest in the tests)
\*   sharded   two segments, keys sharing the first one (h[:2]/h[2:] in the tests)
\*   colliding distinct keys mapped to one path
\*   nested    the path of key 1 is a leading segment of the other keys' paths
\*             (hash(key) = key over keys such as "x" and "x/y")
HashKinds == {"flat", "sharded", "colliding", "nested"}

Hash(key) ==
    CASE hashKind = "flat" -> <<key>>
      [] hashKind = "sharded" -> <<0, key>>
      [] hashKind = "colliding" -> <<0>>
      [] hashKind = "nested" -> IF key = 1 THEN <<1>> ELSE <<1, key>>

GetFilePath(key) == Hash(key)

\* The hash maps distinct keys to distinct paths.
HashInjective == \A j, k \in Keys : j # k => Hash(j) # Hash(k)

\* No key's path is a leading part of another key's path.
HashNonNested == \A j, k \in Keys : ~IsProperPrefix(Hash(j), Hash(k))

----------------------------------------------------------------------------
(* The codec: pickle.dumps / pickle.loads and Pair.model_dump / model_validate *)

PickleDumps(obj) == <<"pickle", obj>>

PickleLoads(bytes) == bytes[2]

Pair(key, value) == [key |-> key, value |-> value]

\* Pair.model_dump(): the pair as a plain mapping.
ModelDump(pair) == <<"key", pair.key, "value", pair.value>>

\* Pair.model_validate(): the mapping back as a pair.
ModelValidate(obj) == [key |-> obj[2], value |-> obj[4]]

----------------------------------------------------------------------------
(* The root directory of a store *)

NoFiles == [p \in {} |-> <<>>]

\* What a call does: the store it leaves, the exception it raises or "ok",
\* and the value it returns.
Result(st, exc, ret) == [st |-> st, exc |-> exc, ret |-> ret]

\* str(self.root), which Metadata.root records.
RootPath == "root"

\* __filesystem_setup on a root that does not exist: mkdir and .meta with
\* length 0 and the root path.  root: the root directory, and with it .meta,
\* is on the disk.
FilesystemSetup ==
    [files |-> NoFiles, dirs |-> {}, length |-> 0, root |-> TRUE, metaRoot |-> RootPath]

\* shutil.rmtree(self.root): the root directory and all below it are gone.
Rmtree(st) ==
    [files |-> NoFiles, dirs |-> {}, length |-> 0, root |-> FALSE, metaRoot |-> "None"]

\* model_post_init that does not call __filesystem_setup.
Open_NoSetup(st) == st

\* __filesystem_setup that does not return when the root exists.
Open_AlwaysSetup(st) == FilesystemSetup

\* model_post_init: __filesystem_setup returns at once when the root
\* exists and bootstraps it otherwise.
Open(st) == IF st.root THEN st ELSE FilesystemSetup

\* The length .meta holds, for a store whose root is on the disk.
Len_(st) == st.length

\* root/.meta is on the disk.
HasMeta(st) == st.root /\ st.metaRoot # None

\* __len__: reads .meta, which raises when the file is not there.
LenCall(st) ==
    IF HasMeta(st) THEN Result(st, "ok", Len_(st)) ELSE Result(st, "FileNotFoundError", None)

\* delete(): rmtree of the root; nothing recreates it.
Delete(st) ==
    IF st.root THEN Result(Rmtree(st), "ok", None) ELSE Result(st, "FileNotFoundError", None)

LenDelta(st, delta) == [st EXCEPT !.length = @ + delta]

\* Path.exists(): a file or a directory is there.
Exists(st, fp) == fp \in DOMAIN st.files \/ fp \in st.dirs \/ (fp = Root /\ st.root)

\* Path.mkdir(parents=True, exist_ok=True)
Mkdir(st, dir) ==
    IF \E a \in Ancestors(dir) : a \in DOMAIN st.files
    THEN Result(st, "NotADirectoryError", None)
    ELSE IF dir \in DOMAIN st.files
    THEN Result(st, "FileExistsError", None)
    ELSE Result([st EXCEPT !.dirs = @ \cup ((Ancestors(dir) \cup {dir}) \ {Root})],
                "ok", None)

\* Path.write_bytes(): creates or overwrites the file.
WriteBytes(st, fp, bytes) ==
    IF fp \in st.dirs
    THEN Result(st, "IsADirectoryError", None)
    ELSE IF \E a \in Ancestors(fp) : a \in DOMAIN st.files
    THEN Result(st, "NotADirectoryError", None)
    ELSE IF \E a \in Ancestors(fp) : a # Root /\ a \notin st.dirs
    THEN Result(st, "FileNotFoundError", None)
    ELSE Result([st EXCEPT !.files =
                    [p \in DOMAIN @ \cup {fp} |-> IF p = fp THEN bytes ELSE @[p]]],
                "ok", None)

\* Path.unlink()
Unlink(st, fp) == [st EXCEPT !.files = [p \in DOMAIN @ \ {fp} |-> @[p]]]

----------------------------------------------------------------------------
(* PersistentDict *)

Save(st, fp, pair) == WriteBytes(st, fp, PickleDumps(ModelDump(pair)))

\* _load: read_bytes fails on a directory; otherwise the decoded pair is in ret.
Load(st, fp) ==
    IF fp \in st.dirs
    THEN Result(st, "IsADirectoryError", None)
    ELSE Result(st, "ok", ModelValidate(PickleLoads(st.files[fp])))

Contains(st, key) == Exists(st, GetFilePath(key))

\* __setitem__ counting every call, without the `if not file_path.exists()` test.
SetItem_AlwaysCounts(st, key, value) ==
    LET fp == GetFilePath(key)
        st1 == LenDelta(st, 1)
        mk == Mkdir(st1, Parent(fp))
    IN  IF mk.exc # "ok" THEN mk ELSE Save(mk.st, fp, Pair(key, value))

\* __setitem__ writing only when the path is new, so that an overwrite is dropped.
SetItem_KeepsOld(st, key, value) ==
    LET fp == GetFilePath(key)
        mk == Mkdir(LenDelta(st, 1), Parent(fp))
    IN  IF Exists(st, fp) THEN Result(st, "ok", None)
        ELSE IF mk.exc # "ok" THEN mk ELSE Save(mk.st, fp, Pair(key, value))

\* _len_delta reads .meta before anything is created, so on a missing root
\* it raises before the mkdir.
SetItem(st, key, value) ==
    LET fp == GetFilePath(key)
        isNew == ~Exists(st, fp)
        st1 == IF isNew THEN LenDelta(st, 1) ELSE st
        mk == IF isNew THEN Mkdir(st1, Parent(fp)) ELSE Result(st1, "ok", None)
    IN  IF isNew /\ ~st.root THEN Result(st, "FileNotFoundError", None)
        ELSE IF mk.exc # "ok" THEN mk ELSE Save(mk.st, fp, Pair(key, value))

\* __getitem__ without `assert pair.key == key`.
GetItem_NoAssert(st, key) ==
    LET fp == GetFilePath(key)
        ld == Load(st, fp)
    IN  IF ~Exists(st, fp) THEN Result(st, "KeyError", None)
        ELSE IF ld.exc # "ok" THEN ld
        ELSE Result(st, "ok", ld.ret.value)

GetItem(st, key) ==
    LET fp == GetFilePath(key)
        ld == Load(st, fp)
    IN  IF ~Exists(st, fp) THEN Result(st, "KeyError", None)
        ELSE IF ld.exc # "ok" THEN ld
        ELSE IF ld.ret.key # key THEN Result(st, "AssertionError", None)
        ELSE Result(st, "ok", ld.ret.value)

\* get() returning None on a miss whatever default was passed.
Get_IgnoresDefault(st, key, defaultvalue) ==
    IF Contains(st, key) THEN GetItem(st, key) ELSE Result(st, "ok", None)

Get(st, key, defaultvalue) ==
    IF Contains(st, key) THEN GetItem(st, key) ELSE Result(st, "ok", defaultvalue)

\* pop() that forgets `self._len_delta(-1)`.
Pop_NoLenDelta(st, key, defaultvalue) ==
    LET fp == GetFilePath(key)
        ld == Load(st, fp)
    IN  IF ~Contains(st, key)
        THEN IF defaultvalue # Unset
             THEN Result(st, "ok", defaultvalue)
             ELSE Result(st, "KeyError", None)
        ELSE IF ld.exc # "ok" THEN ld
        ELSE Result(Unlink(st, fp), "ok", ld.ret.value)

\* pop() that forgets `file_path.unlink()`.
Pop_KeepsFile(st, key, defaultvalue) ==
    LET fp == GetFilePath(key)
        ld == Load(st, fp)
    IN  IF ~Contains(st, key)
        THEN IF defaultvalue # Unset
             THEN Result(st, "ok", defaultvalue)
             ELSE Result(st, "KeyError", None)
        ELSE IF ld.exc # "ok" THEN ld
        ELSE Result(LenDelta(st, -1), "ok", ld.ret.value)

\* pop() with None as the "no default" sentinel instead of _undefined.
Pop_NoneIsUnset(st, key, defaultvalue) ==
    LET fp == GetFilePath(key)
        ld == Load(st, fp)
    IN  IF ~Contains(st, key)
        THEN IF defaultvalue # Unset /\ defaultvalue # None
             THEN Result(st, "ok", defaultvalue)
             ELSE Result(st, "KeyError", None)
        ELSE IF ld.exc # "ok" THEN ld
        ELSE Result(LenDelta(Unlink(st, fp), -1), "ok", ld.ret.value)

Pop(st, key, defaultvalue) ==
    LET fp == GetFilePath(key)
        ld == Load(st, fp)
    IN  IF ~Contains(st, key)
        THEN IF defaultvalue # Unset
             THEN Result(st, "ok", defaultvalue)
             ELSE Result(st, "KeyError", None)
        ELSE IF ld.exc # "ok" THEN ld
        ELSE Result(LenDelta(Unlink(st, fp), -1), "ok", ld.ret.value)

\* update(): one __setitem__ per pair of the source, in order; the first one
\* that raises ends the call.  ret counts the pairs that were set.
RECURSIVE UpdateFrom(_, _, _)
UpdateFrom(st, pairs, done) ==
    IF pairs = <<>> THEN Result(st, "ok", done)
    ELSE LET r == SetItem(st, Head(pairs)[1], Head(pairs)[2])
         IN  IF r.exc # "ok" THEN Result(r.st, r.exc, done)
             ELSE UpdateFrom(r.st, Tail(pairs), done + 1)

Update(st, pairs) == UpdateFrom(st, pairs, 0)

\* clear() without the rmtree: __filesystem_setup returns at once because
\* the root exists.
Clear_NoRmtree(st) == st

\* clear(): rmtree(root), then __filesystem_setup on the now absent root.
Clear(st) == FilesystemSetup

\* The metadata file root/.meta; no hash() of the model yields this path.
Meta == <<-1>>

\* Path.is_file()
IsFile(st, fp) == fp = Meta \/ fp \in DOMAIN st.files

\* root.rglob('*'): every file and every directory below the root.
RGlob(st) == {Meta} \cup DOMAIN st.files \cup st.dirs

\* The files of items() without the `f.is_file()` test.
ItemFiles_NoIsFile(st) == {f \in RGlob(st) : f # Meta}

\* The files items() loads: `f.is_file() and f != self._meta`.
ItemFiles(st) == {f \in RGlob(st) : IsFile(st, f) /\ f # Meta}

\* Pair.to_tuple()
ToTuple(pair) == <<pair.key, pair.value>>

\* items(), keys(), values(): what each visited file yields; the order of the
\* visit is the filesystem's.
Items(st) == [f \in ItemFiles(st) |-> ToTuple(Load(st, f).ret)]

KeysIter(st) == [f \in DOMAIN Items(st) |-> Items(st)[f][1]]

ValuesIter(st) == [f \in DOMAIN Items(st) |-> Items(st)[f][2]]

\* What update() can be given: named bindings (other is None), an object
\* with keys() that is a plain mapping or another PersistentDict, or an
\* iterable of pairs.
SourceKinds == {"kwargs", "mapping", "store", "pairs"}

\* A PersistentDict of the same class that was given the pairs.
OtherStore(pairs) == Update(FilesystemSetup, pairs).st

\* The sequences that list every element of S once.
Orders(S) ==
    {s \in [1..Cardinality(S) -> S] : \A i, j \in 1..Cardinality(S) : s[i] = s[j] => i = j}

\* other.keys(): a mapping (other is its pairs) lists its keys in insertion
\* order, a PersistentDict (other is its store) in the order the filesystem
\* lists its entry files.
OtherKeys(kind, other) ==
    IF kind = "mapping" THEN {[i \in DOMAIN other |-> other[i][1]]}
    ELSE IF kind = "store"
    THEN LET keys == KeysIter(other)
         IN  {[i \in DOMAIN ord |-> keys[ord[i]]] : ord \in Orders(DOMAIN keys)}
    ELSE {<<>>}

\* other[key], as the outcome of the lookup.
OtherGetItem(kind, other, key) ==
    IF kind = "store" THEN GetItem(other, key)
    ELSE LET hits == {i \in DOMAIN other : other[i][1] = key}
         IN  IF hits = {} THEN Result(FilesystemSetup, "KeyError", None)
             ELSE Result(FilesystemSetup, "ok",
                         other[CHOOSE i \in hits : \A h \in hits : h <= i][2])

\* `for key in other.keys(): self[key] = other[key]`; ret counts the keys
\* that were set.
RECURSIVE UpdateKeyed(_, _, _, _, _)
UpdateKeyed(st, kind, other, keys, done) ==
    IF keys = <<>> THEN Result(st, "ok", done)
    ELSE LET v == OtherGetItem(kind, other, Head(keys))
             r == SetItem(st, Head(keys), v.ret)
         IN  IF v.exc # "ok" THEN Result(st, v.exc, done)
             ELSE IF r.exc # "ok" THEN Result(r.st, r.exc, done)
             ELSE UpdateKeyed(r.st, kind, other, Tail(keys), done + 1)

\* update() that returns at `other is None` without setting the bindings.
UpdateOther_DropsKwargs(st, kind, other, keys) ==
    IF kind = "kwargs" THEN Result(st, "ok", Len(other))
    ELSE IF kind \in {"mapping", "store"} THEN UpdateKeyed(st, kind, other, keys, 0)
    ELSE Update(st, other)

\* update(other, **kwargs) by the kind of its source: other is the store of
\* a PersistentDict and the pairs of any other source; keys is what
\* other.keys() yields when other has keys(); ret counts the sets done.
UpdateOther(st, kind, other, keys) ==
    IF kind = "kwargs" THEN Update(st, other)
    ELSE IF kind \in {"mapping", "store"} THEN UpdateKeyed(st, kind, other, keys, 0)
    ELSE Update(st, other)

----------------------------------------------------------------------------
(* History of the keyed store: what a caller knows it has stored *)

NoKeys == [k \in {} |-> None]

LivePut(m, key, value) == [k \in DOMAIN m \cup {key} |-> IF k = key THEN value ELSE m[k]]

LiveDrop(m, key) == [k \in DOMAIN m \ {key} |-> m[k]]

RECURSIVE LivePutAll(_, _, _)
LivePutAll(m, pairs, n) ==
    IF n = 0 THEN m
    ELSE LivePutAll(LivePut(m, Head(pairs)[1], Head(pairs)[2]), Tail(pairs), n - 1)

\* had: whether `key in self` held when the call started; for clear(),
\* whether the store held an entry file.
Call(op, key, val, dflt, had, exc, ret) ==
    [op |-> op, key |-> key, val |-> val, dflt |-> dflt, had |-> had,
     exc |-> exc, ret |-> ret]

PairSeqs == UNION {[1..n -> Keys \X Values] : n \in 1..MaxUpdate}

----------------------------------------------------------------------------
(* Actions of the keyed store *)

DictSetItem ==
    \E key \in Keys, value \in Values :
        LET r == SetItem(dict, key, value)
        IN  /\ Len_(dict) < MaxMeta
            /\ dict' = r.st
            /\ live' = IF r.exc = "ok" THEN LivePut(live, key, value) ELSE live
            /\ last' = Call("set", key, value, Unset, Contains(dict, key), r.exc, None)
            /\ UNCHANGED <<nonStore, hashKind, plist, refList>>

DictGetItem ==
    \E key \in Keys :
        LET r == GetItem(dict, key)
        IN  /\ dict' = r.st
            /\ last' = Call("get", key, None, Unset, Contains(dict, key), r.exc, r.ret)
            /\ UNCHANGED <<nonStore, hashKind, live, plist, refList>>

DictGet ==
    \E key \in Keys, dflt \in Defaults \ {Unset} :
        LET r == Get(dict, key, dflt)
        IN  /\ dict' = r.st
            /\ last' = Call("getOr", key, None, dflt, Contains(dict, key), r.exc, r.ret)
            /\ UNCHANGED <<nonStore, hashKind, live, plist, refList>>

DictContains ==
    \E key \in Keys :
        /\ last' = Call("contains", key, None, Unset, Contains(dict, key), "ok",
                        IF Contains(dict, key) THEN "True" ELSE "False")
        /\ UNCHANGED <<nonStore, hashKind, dict, live, plist, refList>>

DictPop ==
    \E key \in Keys, dflt \in Defaults :
        LET r == Pop(dict, key, dflt)
            removed == r.exc = "ok" /\ Contains(dict, key)
        IN  /\ dict' = r.st
            /\ live' = IF removed THEN LiveDrop(live, key) ELSE live
            /\ last' = Call("pop", key, None, dflt, Contains(dict, key), r.exc, r.ret)
            /\ UNCHANGED <<nonStore, hashKind, plist, refList>>

DictUpdate ==
    \E pairs \in PairSeqs :
        LET r == Update(dict, pairs)
        IN  /\ Len_(dict) + Len(pairs) <= MaxMeta
            /\ dict' = r.st
            /\ live' = LivePutAll(live, pairs, r.ret)
            /\ last' = Call("update", 0, None, Unset, FALSE, r.exc, None)
            /\ UNCHANGED <<nonStore, hashKind, plist, refList>>

DictClear ==
    /\ dict' = Clear(dict)
    /\ live' = NoKeys
    /\ last' = Call("clear", 0, None, Unset, DOMAIN dict.files # {}, "ok", None)
    /\ UNCHANGED <<nonStore, hashKind, plist, refList>>

NoCall == Call("open", 0, None, Unset, FALSE, "ok", None)

InitDict ==
    /\ hashKind \in HashKinds
    /\ dict = FilesystemSetup
    /\ live = NoKeys
    /\ plist = FilesystemSetup
    /\ refList = <<>>
    /\ last = NoCall
    /\ InitNonStore

NextDict ==
    \/ DictSetItem
    \/ DictGetItem
    \/ DictGet
    \/ DictContains
    \/ DictPop
    \/ DictUpdate
    \/ DictClear

SpecDict == InitDict /\ [][NextDict]_vars

\* The sources of update(): bindings, mappings and stores have each key
\* once; what a store holds does not depend on the order it was given it, so
\* its pairs are listed by ascending key.
DistinctKeys(pairs) == \A i, j \in DOMAIN pairs : pairs[i][1] = pairs[j][1] => i = j

AscendingKeys(pairs) == \A i, j \in DOMAIN pairs : i < j => pairs[i][1] < pairs[j][1]

Sources ==
    {src \in [kind : SourceKinds, pairs : PairSeqs \cup {<<>>}] :
         /\ src.kind # "pairs" => DistinctKeys(src.pairs)
         /\ src.kind = "store" => AscendingKeys(src.pairs)}

\* The pairs update() assigns, in the order it assigns them.
Assigned(kind, other, keys) ==
    IF kind \in {"mapping", "store"}
    THEN [i \in DOMAIN keys |-> <<keys[i], OtherGetItem(kind, other, keys[i]).ret>>]
    ELSE other

\* What a source binds: each of its keys to the value of its last pair for
\* that key, and the pairs that a later pair of the same key replaces.
Bindings(pairs) ==
    [k \in {pairs[i][1] : i \in DOMAIN pairs} |->
        pairs[CHOOSE i \in DOMAIN pairs :
                  pairs[i][1] = k /\ \A j \in DOMAIN pairs : pairs[j][1] = k => j <= i][2]]

Shadowed(pairs) ==
    {pairs[i] : i \in {i \in DOMAIN pairs : \E j \in DOMAIN pairs : j > i /\ pairs[j][1] = pairs[i][1]}}

\* update(source); the call record keeps the source: its kind in dflt, the
\* number of its pairs in key, and what it binds in val.
DictUpdateOther ==
    \E src \in Sources :
        LET other == IF src.kind = "store" THEN OtherStore(src.pairs) ELSE src.pairs
        IN  \E keys \in OtherKeys(src.kind, other) :
                LET r == UpdateOther(dict, src.kind, other, keys)
                IN  /\ Len_(dict) + Len(src.pairs) <= MaxMeta
                    /\ dict' = r.st
                    /\ live' = LivePutAll(live, Assigned(src.kind, other, keys), r.ret)
                    /\ last' = Call("update", Len(src.pairs),
                                    [binds |-> Bindings(src.pairs),
                                     shadowed |-> Shadowed(src.pairs)],
                                    src.kind, FALSE, r.exc, None)
                    /\ UNCHANGED <<nonStore, hashKind, plist, refList>>

\* Every content of the store is reached by update() and clear() alone.
NextUpdate ==
    \/ DictClear
    \/ DictUpdateOther

\* The stores update() is studied on: those whose hash gives every key a file
\* of its own.
InitUpdate == InitDict /\ hashKind \in {"flat", "sharded"}

SpecUpdate == InitUpdate /\ [][NextUpdate]_vars

----------------------------------------------------------------------------
(* PersistentList *)

\* root / str(idx): one segment, the decimal numeral of the index.
ListFilePath(idx) == <<idx>>

\* Path.read_bytes()
ReadBytes(st, fp) ==
    IF fp \in st.dirs THEN Result(st, "IsADirectoryError", None)
    ELSE IF fp \notin DOMAIN st.files THEN Result(st, "FileNotFoundError", None)
    ELSE Result(st, "ok", st.files[fp])

\* Path.rename(): moves the file, replacing a file already at the new path.
Rename(st, old, new) ==
    [st EXCEPT !.files =
        [p \in (DOMAIN @ \ {old}) \cup {new} |-> IF p = new THEN @[old] ELSE @[p]]]

\* _validate_index without `idx = len(self) + idx` for a negative index.
ValidateIndex_NoNegative(st, idx) ==
    IF idx < 0 \/ idx >= Len_(st)
    THEN Result(st, "IndexError", None)
    ELSE Result(st, "ok", idx)

\* _validate_index: the normalised index in ret, or IndexError.
ValidateIndex(st, idx) ==
    LET i == IF idx < 0 THEN Len_(st) + idx ELSE idx
    IN  IF i < 0 \/ i >= Len_(st)
        THEN Result(st, "IndexError", None)
        ELSE Result(st, "ok", i)

LSetItem(st, idx, item) ==
    LET v == ValidateIndex(st, idx)
    IN  IF v.exc # "ok" THEN v
        ELSE WriteBytes(st, ListFilePath(v.ret), PickleDumps(item))

LGetItem(st, idx) ==
    LET v == ValidateIndex(st, idx)
        rd == ReadBytes(st, ListFilePath(v.ret))
    IN  IF v.exc # "ok" THEN v
        ELSE IF rd.exc # "ok" THEN rd
        ELSE Result(st, "ok", PickleLoads(rd.ret))

\* range(a, b) as a sequence, and reversed(range(a, b)).
Range(a, b) == [n \in 1..(IF b > a THEN b - a ELSE 0) |-> a + n - 1]

Reversed(seq) == [n \in 1..Len(seq) |-> seq[Len(seq) + 1 - n]]

\* The loop of _shift_files over the indices `order`.
RECURSIVE ShiftLoop(_, _, _)
ShiftLoop(st, order, shift) ==
    IF order = <<>> THEN st
    ELSE LET i == Head(order)
             moved == IF Exists(st, ListFilePath(i))
                      THEN Rename(st, ListFilePath(i), ListFilePath(i + shift))
                      ELSE st
         IN  ShiftLoop(moved, Tail(order), shift)

\* _shift_files with the loop always ascending.
ShiftFiles_Ascending(st, start_idx, shift) ==
    ShiftLoop(st, Range(start_idx, Len_(st)), shift)

ShiftFiles(st, start_idx, shift) ==
    LET start_to_end == Range(start_idx, Len_(st))
    IN  ShiftLoop(st, IF shift < 0 THEN start_to_end ELSE Reversed(start_to_end), shift)

\* append() that forgets `self._len_delta()`.
LAppend_NoLenDelta(st, item) ==
    WriteBytes(st, ListFilePath(Len_(st)), PickleDumps(item))

LAppend(st, item) ==
    LET w == WriteBytes(st, ListFilePath(Len_(st)), PickleDumps(item))
    IN  IF w.exc # "ok" THEN w ELSE Result(LenDelta(w.st, 1), "ok", None)

\* insert() clamping a negative index to 0 without adding the length first.
LInsert_NegativeToZero(st, idx, item) ==
    LET current_len == Len_(st)
        i == IF idx < 0 THEN 0
             ELSE (IF idx < current_len THEN idx ELSE current_len)
        w == WriteBytes(ShiftFiles(st, i, 1), ListFilePath(i), PickleDumps(item))
    IN  IF w.exc # "ok" THEN w ELSE Result(LenDelta(w.st, 1), "ok", None)

LInsert(st, idx, item) ==
    LET current_len == Len_(st)
        i == IF idx < 0
             THEN (IF current_len + idx > 0 THEN current_len + idx ELSE 0)
             ELSE (IF idx < current_len THEN idx ELSE current_len)
        w == WriteBytes(ShiftFiles(st, i, 1), ListFilePath(i), PickleDumps(item))
    IN  IF w.exc # "ok" THEN w ELSE Result(LenDelta(w.st, 1), "ok", None)

\* pop() that unlinks the file and leaves the later files where they are.
LPop_NoShift(st, idx) ==
    LET current_len == Len_(st)
        i == IF idx < 0 THEN current_len + idx ELSE idx
        item == LGetItem(st, i)
    IN  IF current_len = 0 THEN Result(st, "IndexError", None)
        ELSE IF i < 0 \/ i >= current_len THEN Result(st, "IndexError", None)
        ELSE IF item.exc # "ok" THEN item
        ELSE Result(LenDelta(Unlink(st, ListFilePath(i)), -1), "ok", item.ret)

\* pop() reading the item only after the later files were shifted down.
LPop_ReadsAfterShift(st, idx) ==
    LET current_len == Len_(st)
        i == IF idx < 0 THEN current_len + idx ELSE idx
        shifted == ShiftFiles(Unlink(st, ListFilePath(i)), i + 1, -1)
        item == ReadBytes(shifted, ListFilePath(i))
    IN  IF current_len = 0 THEN Result(st, "IndexError", None)
        ELSE IF i < 0 \/ i >= current_len THEN Result(st, "IndexError", None)
        ELSE IF item.exc # "ok" THEN Result(LenDelta(shifted, -1), item.exc, None)
        ELSE Result(LenDelta(shifted, -1), "ok", PickleLoads(item.ret))

\* pop() clamping an out-of-range index the way insert() does.
LPop_Clamps(st, idx) ==
    LET current_len == Len_(st)
        n == IF idx < 0 THEN current_len + idx ELSE idx
        i == IF n < 0 THEN 0 ELSE IF n >= current_len THEN current_len - 1 ELSE n
        item == LGetItem(st, i)
    IN  IF current_len = 0 THEN Result(st, "IndexError", None)
        ELSE IF item.exc # "ok" THEN item
        ELSE Result(LenDelta(ShiftFiles(Unlink(st, ListFilePath(i)), i + 1, -1), -1),
                    "ok", item.ret)

LPop(st, idx) ==
    LET current_len == Len_(st)
        i == IF idx < 0 THEN current_len + idx ELSE idx
        item == LGetItem(st, i)
    IN  IF current_len = 0 THEN Result(st, "IndexError", None)
        ELSE IF i < 0 \/ i >= current_len THEN Result(st, "IndexError", None)
        ELSE IF item.exc # "ok" THEN item
        ELSE Result(LenDelta(ShiftFiles(Unlink(st, ListFilePath(i)), i + 1, -1), -1),
                    "ok", item.ret)

\* The loop of remove() from position i on.
RECURSIVE LRemoveFrom(_, _, _)
LRemoveFrom(st, item, i) ==
    IF i >= Len_(st) THEN Result(st, "ValueError", None)
    ELSE LET r == LGetItem(st, i)
         IN  IF r.exc # "ok" THEN r
             ELSE IF r.ret = item
             THEN LET p == LPop(st, i) IN Result(p.st, p.exc, None)
             ELSE LRemoveFrom(st, item, i + 1)

\* The loop of remove() scanning from the last position down to position i.
RECURSIVE LRemoveDownFrom(_, _, _)
LRemoveDownFrom(st, item, i) ==
    IF i < 0 THEN Result(st, "ValueError", None)
    ELSE LET r == LGetItem(st, i)
         IN  IF r.exc # "ok" THEN r
             ELSE IF r.ret = item
             THEN LET p == LPop(st, i) IN Result(p.st, p.exc, None)
             ELSE LRemoveDownFrom(st, item, i - 1)

\* remove() that removes the last equal element instead of the first.
LRemove_Last(st, item) ==
    IF Len_(st) = 0 THEN Result(st, "ValueError", None)
    ELSE LRemoveDownFrom(st, item, Len_(st) - 1)

LRemove(st, item) == LRemoveFrom(st, item, 0)

RECURSIVE LExtend(_, _)
LExtend(st, items) ==
    IF items = <<>> THEN Result(st, "ok", None)
    ELSE LET r == LAppend(st, Head(items))
         IN  IF r.exc # "ok" THEN r ELSE LExtend(r.st, Tail(items))

----------------------------------------------------------------------------
(* The reference: Python's built-in list, as a sequence (position i is [i+1]) *)

RefNorm(l, idx) == IF idx < 0 THEN Len(l) + idx ELSE idx

RefInRange(l, idx) == RefNorm(l, idx) >= 0 /\ RefNorm(l, idx) < Len(l)

RefSetItem(l, idx, item) ==
    IF RefInRange(l, idx) THEN [l EXCEPT ![RefNorm(l, idx) + 1] = item] ELSE l

RefInsertAt(l, p, item) == SubSeq(l, 1, p) \o <<item>> \o SubSeq(l, p + 1, Len(l))

RefInsert(l, idx, item) ==
    LET n == RefNorm(l, idx)
    IN  RefInsertAt(l, IF n < 0 THEN 0 ELSE IF n > Len(l) THEN Len(l) ELSE n, item)

RefDelete(l, p) == SubSeq(l, 1, p) \o SubSeq(l, p + 2, Len(l))

RefPop(l, idx) == IF RefInRange(l, idx) THEN RefDelete(l, RefNorm(l, idx)) ELSE l

RefRemove(l, item) ==
    IF \E n \in 1..Len(l) : l[n] = item
    THEN RefDelete(l, (CHOOSE n \in 1..Len(l) :
                          l[n] = item /\ \A m \in 1..(n - 1) : l[m] # item) - 1)
    ELSE l

Indices == (0 - (MaxLen + 1))..(MaxLen + 1)

ItemSeqs == UNION {[1..n -> Values] : n \in 1..MaxExtend}

----------------------------------------------------------------------------
(* Actions of the ordered store *)

ListSetItem ==
    \E idx \in Indices, item \in Values :
        LET r == LSetItem(plist, idx, item)
        IN  /\ plist' = r.st
            /\ refList' = RefSetItem(refList, idx, item)
            /\ last' = Call("lset", idx, item, Unset, FALSE, r.exc, None)
            /\ UNCHANGED <<nonStore, hashKind, dict, live>>

ListGetItem ==
    \E idx \in Indices :
        LET r == LGetItem(plist, idx)
        IN  /\ plist' = r.st
            /\ last' = Call("lget", idx, None, Unset, FALSE, r.exc, r.ret)
            /\ UNCHANGED <<nonStore, hashKind, dict, live, refList>>

ListAppend ==
    \E item \in Values :
        LET r == LAppend(plist, item)
        IN  /\ Len_(plist) < MaxLen
            /\ plist' = r.st
            /\ refList' = Append(refList, item)
            /\ last' = Call("append", 0, item, Unset, FALSE, r.exc, None)
            /\ UNCHANGED <<nonStore, hashKind, dict, live>>

ListInsert ==
    \E idx \in Indices, item \in Values :
        LET r == LInsert(plist, idx, item)
        IN  /\ Len_(plist) < MaxLen
            /\ plist' = r.st
            /\ refList' = RefInsert(refList, idx, item)
            /\ last' = Call("insert", idx, item, Unset, FALSE, r.exc, None)
            /\ UNCHANGED <<nonStore, hashKind, dict, live>>

ListPopItem ==
    \E idx \in Indices :
        LET r == LPop(plist, idx)
        IN  /\ plist' = r.st
            /\ refList' = RefPop(refList, idx)
            /\ last' = Call("lpop", idx, None, Unset, FALSE, r.exc, r.ret)
            /\ UNCHANGED <<nonStore, hashKind, dict, live>>

ListRemove ==
    \E item \in Values :
        LET r == LRemove(plist, item)
        IN  /\ plist' = r.st
            /\ refList' = RefRemove(refList, item)
            /\ last' = Call("remove", 0, item, Unset, FALSE, r.exc, None)
            /\ UNCHANGED <<nonStore, hashKind, dict, live>>

ListExtend ==
    \E items \in ItemSeqs :
        LET r == LExtend(plist, items)
        IN  /\ Len_(plist) + Len(items) <= MaxLen
            /\ plist' = r.st
            /\ refList' = refList \o items
            /\ last' = Call("extend", Len(items), None, Unset, FALSE, r.exc, None)
            /\ UNCHANGED <<nonStore, hashKind, dict, live>>

ListClear ==
    /\ plist' = Clear(plist)
    /\ refList' = <<>>
    /\ last' = Call("lclear", 0, None, Unset, DOMAIN plist.files # {}, "ok", None)
    /\ UNCHANGED <<nonStore, hashKind, dict, live>>

InitList ==
    /\ hashKind = "flat"
    /\ dict = FilesystemSetup
    /\ live = NoKeys
    /\ plist = FilesystemSetup
    /\ refList = <<>>
    /\ last = NoCall
    /\ InitNonStore

NextList ==
    \/ ListSetItem
    \/ ListGetItem
    \/ ListAppend
    \/ ListInsert
    \/ ListPopItem
    \/ ListRemove
    \/ ListExtend
    \/ ListClear

SpecList == InitList /\ [][NextList]_vars

----------------------------------------------------------------------------
(* The stores after delete() *)

\* len(d)
DictLen ==
    LET r == LenCall(dict)
    IN  /\ last' = Call("len", 0, None, Unset, FALSE, r.exc, r.ret)
        /\ UNCHANGED <<nonStore, hashKind, dict, live, plist, refList>>

\* list(d.items()); ret is the number of pairs the iteration yields.  rglob
\* under a directory that is not there yields nothing and raises nothing.
DictItems ==
    /\ last' = Call("items", 0, None, Unset, FALSE, "ok", Cardinality(DOMAIN Items(dict)))
    /\ UNCHANGED <<nonStore, hashKind, dict, live, plist, refList>>

DictDelete ==
    LET r == Delete(dict)
    IN  /\ dict' = r.st
        /\ live' = IF r.exc = "ok" THEN NoKeys ELSE live
        /\ last' = Call("delete", 0, None, Unset, DOMAIN dict.files # {}, r.exc, None)
        /\ UNCHANGED <<nonStore, hashKind, plist, refList>>

\* Every method of PersistentList evaluates len(self) before anything else:
\* without .meta the call ends there.
OnRoot(st, r) == IF st.root THEN r ELSE Result(st, "FileNotFoundError", None)

\* A call of the ordered store once its root is deleted.
GoneListCall(op, idx, item, r) ==
    /\ ~plist.root
    /\ plist' = r.st
    /\ last' = Call(op, idx, item, Unset, FALSE, r.exc, r.ret)
    /\ UNCHANGED <<nonStore, hashKind, dict, live, refList>>

GoneListLen == GoneListCall("llen", 0, None, LenCall(plist))

GoneListGetItem ==
    \E idx \in Indices : GoneListCall("lget", idx, None, OnRoot(plist, LGetItem(plist, idx)))

GoneListSetItem ==
    \E idx \in Indices, item \in Values :
        GoneListCall("lset", idx, item, OnRoot(plist, LSetItem(plist, idx, item)))

GoneListAppend ==
    \E item \in Values : GoneListCall("append", 0, item, OnRoot(plist, LAppend(plist, item)))

GoneListInsert ==
    \E idx \in Indices, item \in Values :
        GoneListCall("insert", idx, item, OnRoot(plist, LInsert(plist, idx, item)))

GoneListPop ==
    \E idx \in Indices : GoneListCall("lpop", idx, None, OnRoot(plist, LPop(plist, idx)))

\* list(l): __iter__ starts with range(len(self)).
GoneListIter == GoneListCall("iter", 0, None, OnRoot(plist, Result(plist, "ok", None)))

ListDelete ==
    LET r == Delete(plist)
    IN  /\ plist' = r.st
        /\ refList' = IF r.exc = "ok" THEN <<>> ELSE refList
        /\ last' = Call("delete", 0, None, Unset, DOMAIN plist.files # {}, r.exc, None)
        /\ UNCHANGED <<nonStore, hashKind, dict, live>>

\* Either store is filled, deleted, and then called again.  delete() is the
\* end of a store: the other one is exercised from its empty state.
NextDelete ==
    \/ /\ plist = FilesystemSetup
       /\ \/ DictSetItem
          \/ DictGetItem
          \/ DictGet
          \/ DictContains
          \/ DictPop
          \/ DictLen
          \/ DictItems
          \/ DictDelete
    \/ /\ dict = FilesystemSetup /\ hashKind = "flat"
       /\ \/ plist.root /\ ListAppend
          \/ ListDelete
          \/ GoneListLen
          \/ GoneListGetItem
          \/ GoneListSetItem
          \/ GoneListAppend
          \/ GoneListInsert
          \/ GoneListPop
          \/ GoneListIter

SpecDelete == InitDict /\ [][NextDelete]_vars

----------------------------------------------------------------------------
(* Store objects: construction on an absent and on an existing root *)

\* The objects a program constructs on one root.
Handles == {"s1", "s2"}

\* A root nothing was constructed on yet.
NoRoot == Rmtree(FilesystemSetup)

\* PersistentDict(root=...); had: whether the root existed before.
OpenDict ==
    \E h \in Handles :
        /\ dict' = Open(dict)
        /\ opened' = opened \cup {<<"dict", h>>}
        /\ last' = Call("new", 0, None, Unset, dict.root, "ok", None)
        /\ UNCHANGED <<hashKind, live, plist, refList, cbuf, cbHist, tree, proc>>

\* PersistentList(root=...)
OpenList ==
    \E h \in Handles :
        /\ plist' = Open(plist)
        /\ opened' = opened \cup {<<"list", h>>}
        /\ last' = Call("lnew", 0, None, Unset, plist.root, "ok", None)
        /\ UNCHANGED <<hashKind, dict, live, refList, cbuf, cbHist, tree, proc>>

\* An object holds its root path and nothing else, so a call through any
\* constructed object is the call on the root.
HasDict == \E h \in Handles : <<"dict", h>> \in opened

HasList == \E h \in Handles : <<"list", h>> \in opened

InitOpen ==
    /\ hashKind \in HashKinds
    /\ dict = NoRoot
    /\ live = NoKeys
    /\ plist = NoRoot
    /\ refList = <<>>
    /\ last = NoCall
    /\ opened = {}
    /\ cbuf = Idle /\ cbHist = Idle /\ tree = Idle /\ proc = Idle

NextOpen ==
    \/ /\ plist = NoRoot
       /\ \/ OpenDict
          \/ HasDict /\ dict.root /\ DictSetItem
          \/ HasDict /\ dict.root /\ DictGetItem
          \/ HasDict /\ dict.root /\ DictPop
          \/ HasDict /\ DictLen
          \/ HasDict /\ DictDelete
    \/ /\ dict = NoRoot /\ hashKind = "flat"
       /\ \/ OpenList
          \/ HasList /\ plist.root /\ ListAppend
          \/ HasList /\ plist.root /\ ListGetItem
          \/ HasList /\ plist.root /\ ListPopItem
          \/ HasList /\ ListDelete

SpecOpen == InitOpen /\ [][NextOpen]_vars

\* A directory that exists and holds nothing, no .meta either.
EmptyDirectory ==
    [files |-> NoFiles, dirs |-> {}, length |-> 0, root |-> TRUE, metaRoot |-> None]

\* Store objects constructed on a root that is absent or is an empty
\* directory; entries are written and read where .meta is there to count them.
InitOpenAny ==
    /\ hashKind \in HashKinds
    /\ \/ dict \in {NoRoot, EmptyDirectory} /\ plist = NoRoot
       \/ dict = NoRoot /\ plist = EmptyDirectory
    /\ live = NoKeys
    /\ refList = <<>>
    /\ last = NoCall
    /\ opened = {}
    /\ cbuf = Idle /\ cbHist = Idle /\ tree = Idle /\ proc = Idle

OnDict == plist = NoRoot

OnList == dict = NoRoot /\ hashKind = "flat"

NextOpenAny ==
    \/ OnDict /\ OpenDict
    \/ OnDict /\ HasDict /\ HasMeta(dict) /\ DictSetItem
    \/ OnDict /\ HasDict /\ HasMeta(dict) /\ DictPop
    \/ OnDict /\ HasDict /\ DictLen
    \/ OnDict /\ HasDict /\ DictDelete
    \/ OnList /\ OpenList
    \/ OnList /\ HasList /\ HasMeta(plist) /\ ListAppend
    \/ OnList /\ HasList /\ GoneListLen
    \/ OnList /\ HasList /\ ListDelete

SpecOpenAny == InitOpenAny /\ [][NextOpenAny]_vars

----------------------------------------------------------------------------
(* A keyed and an ordered store side by side *)

\* The two stores have roots of their own and never touch each other's
\* files, so each is exercised while the other holds nothing; the ordered
\* store has no hash and is exercised, as in InitList, under one hashKind.
InitEither == InitDict

NextEither ==
    \/ plist = FilesystemSetup /\ NextDict
    \/ dict = FilesystemSetup /\ hashKind = "flat" /\ NextList

SpecEither == InitEither /\ [][NextEither]_vars

----------------------------------------------------------------------------
(* CircularBuffer (ds/circular_buffer.py) *)

\* np.empty(size): the backing array before anything is written; 0 stands
\* for a slot whose content was never written.
EmptyBuffer(size) == [i \in 0..(size - 1) |-> 0]

\* __init__
NewBuffer(empty_buffer) ==
    [buf |-> empty_buffer, size |-> Cardinality(DOMAIN empty_buffer), r |-> 0, w |-> 0, count |-> 0]

\* buf[lo:hi] for 0 <= lo <= hi <= size, as the sequence of its elements.
Slice(buf, lo, hi) == [i \in 1..(hi - lo) |-> buf[lo + i - 1]]

\* buf[lo:lo + len(data)] = data
SetSlice(buf, lo, data) ==
    [i \in DOMAIN buf |-> IF lo <= i /\ i < lo + Len(data) THEN data[i - lo + 1] ELSE buf[i]]

\* read() returning only buf[r:] when the elements span the end of the array.
Read_NoSecondPart(b, n0) ==
    LET n == IF n0 > b.count THEN b.count ELSE n0
        result == IF b.r + n <= b.size
                  THEN Slice(b.buf, b.r, b.r + n)
                  ELSE Slice(b.buf, b.r, b.size)
    IN  Result([b EXCEPT !.r = (b.r + n) % b.size, !.count = b.count - n], "ok", result)

\* read(n)
Read(b, n0) ==
    LET n == IF n0 > b.count THEN b.count ELSE n0
        first_part == Slice(b.buf, b.r, b.size)
        second_part == Slice(b.buf, 0, n - Len(first_part))
        result == IF b.r + n <= b.size
                  THEN Slice(b.buf, b.r, b.r + n)
                  ELSE first_part \o second_part
    IN  Result([b EXCEPT !.r = (b.r + n) % b.size, !.count = b.count - n], "ok", result)

\* _write() without the `% self.size` of the write position.
Write__NoModulo(b, data) ==
    LET n == Len(data)
        first_part_size == b.size - b.w
        buf1 == IF b.w + n <= b.size
                THEN SetSlice(b.buf, b.w, data)
                ELSE SetSlice(SetSlice(b.buf, b.w, SubSeq(data, 1, first_part_size)),
                              0, SubSeq(data, first_part_size + 1, n))
    IN  [b EXCEPT !.buf = buf1, !.count = b.count + n, !.w = b.w + n]

\* _write(data)
Write_(b, data) ==
    LET n == Len(data)
        first_part_size == b.size - b.w
        buf1 == IF b.w + n <= b.size
                THEN SetSlice(b.buf, b.w, data)
                ELSE SetSlice(SetSlice(b.buf, b.w, SubSeq(data, 1, first_part_size)),
                              0, SubSeq(data, first_part_size + 1, n))
    IN  [b EXCEPT !.buf = buf1, !.count = b.count + n, !.w = (b.w + n) % b.size]

\* write() without the test of the available space.
Write_NoSpaceCheck(b, data) == Result(Write_(b, data), "ok", None)

\* write(data)
Write(b, data) ==
    LET available_space == b.size - b.count
    IN  IF Len(data) > available_space
        THEN Result(b, "ValueError", None)
        ELSE Result(Write_(b, data), "ok", None)

\* The code never looks at an element, so the k-th element a run writes is
\* the number k: any loss, repetition or reordering shows in what is read.
NextData(written, n) == [i \in 1..n |-> written + i]

\* The element counts a call is given: 0 up to more than any buffer holds.
Counts == 0..(MaxSize + 1)

\* had: whether the call spans the end of the backing array.
BufWrite ==
    \E n \in Counts :
        LET data == NextData(cbHist.written, n)
            res == Write(cbuf, data)
        IN  /\ cbHist.written + n <= MaxWritten
            /\ cbuf' = res.st
            /\ cbHist' = IF res.exc = "ok"
                         THEN [cbHist EXCEPT !.written = @ + n]
                         ELSE cbHist
            /\ last' = Call("write", n, None, Unset,
                            res.exc = "ok" /\ cbuf.w + n > cbuf.size, res.exc, None)
            /\ UNCHANGED <<storeVars, opened, tree, proc>>

BufRead ==
    \E n \in Counts :
        LET res == Read(cbuf, n)
        IN  /\ cbuf' = res.st
            /\ cbHist' = [cbHist EXCEPT !.read = @ \o res.ret]
            /\ last' = Call("read", n, None, Unset,
                            cbuf.r + Len(res.ret) > cbuf.size, res.exc, res.ret)
            /\ UNCHANGED <<storeVars, opened, tree, proc>>

\* The stores, at rest in a specification of another component.
InitStoresIdle ==
    /\ hashKind = "flat"
    /\ dict = FilesystemSetup
    /\ live = NoKeys
    /\ plist = FilesystemSetup
    /\ refList = <<>>

InitBuffer ==
    /\ InitStoresIdle
    /\ last = NoCall
    /\ \E size \in 1..MaxSize : cbuf = NewBuffer(EmptyBuffer(size))
    /\ cbHist = [written |-> 0, read |-> <<>>]
    /\ opened = Idle /\ tree = Idle /\ proc = Idle

NextBuffer ==
    \/ BufWrite
    \/ BufRead

SpecBuffer == InitBuffer /\ [][NextBuffer]_vars

----------------------------------------------------------------------------
(* CircularBuffer coroutines: try_write and notify on one asyncio event loop *)

\* The tasks of the loop: two try_write callers and one notify caller. read()
\* is synchronous: the code that calls it runs when no task below is running.
BufWriters == {"w1", "w2"}
Notifier == "nt"
Tasks == BufWriters \cup {Notifier}

\* n: len(data); waited: the call has been through self._space.wait().
CoIdle == [pc |-> "idle", n |-> 0, waited |-> FALSE]

\* running: the task the loop is executing, None between two tasks;
\* locked: the lock of self._space.  The waiters of the condition are the
\* tasks at "waiting".
NewLoop == [tasks |-> [t \in Tasks |-> CoIdle], running |-> None, locked |-> FALSE]

\* try_write() giving the loop a turn between leaving `async with` and
\* _write(), as an await at that place would.
Suspends_BeforeWrite(pc) == pc \in {"idle", "waiting", "write"}

\* The places where a task hands control back to the loop: the return, and
\* `await fut` in Condition.wait().  Lock.acquire() on a free lock,
\* __aexit__ and notify_all() do not suspend.
Suspends(pc) == pc \in {"idle", "waiting"}

\* A suspended task the loop can resume: one that awaits the lock when the
\* lock is free; a waiter of the condition only after notify_all().
Ready(lp, t) ==
    LET pc == lp.tasks[t].pc
    IN  IF pc \in {"enter", "reacquire"} THEN ~lp.locked
        ELSE pc \notin {"idle", "waiting"}

Runs(t) == proc.running = t \/ (proc.running = None /\ Ready(proc, t))

CoStep(t, loc1, locked1) ==
    proc' = [proc EXCEPT !.tasks[t] = loc1,
                         !.locked = locked1,
                         !.running = IF Suspends(loc1.pc) THEN None ELSE t]

\* A task is created for try_write(data).
StartTryWrite(t) ==
    \E n \in Counts :
        /\ proc.running = None
        /\ t \in BufWriters
        /\ proc.tasks[t].pc = "idle"
        /\ cbHist.written + n + proc.tasks["w1"].n + proc.tasks["w2"].n <= MaxWritten
        /\ proc' = [proc EXCEPT !.tasks[t] = [pc |-> "enter", n |-> n, waited |-> FALSE]]
        /\ UNCHANGED <<storeVars, last, opened, cbuf, cbHist, tree>>

\* A task is created for notify().
StartNotify ==
    /\ proc.running = None
    /\ proc.tasks[Notifier].pc = "idle"
    /\ proc' = [proc EXCEPT !.tasks[Notifier] = [CoIdle EXCEPT !.pc = "enter"]]
    /\ UNCHANGED <<storeVars, last, opened, cbuf, cbHist, tree>>

\* `async with self._space:` and the end of Condition.wait(): take the lock.
CoAcquire(t) ==
    LET loc == proc.tasks[t]
    IN  /\ Runs(t)
        /\ loc.pc \in {"enter", "reacquire"}
        /\ ~proc.locked
        /\ CoStep(t, [loc EXCEPT !.pc = IF t \in BufWriters THEN "test" ELSE "notify_all"], TRUE)
        /\ UNCHANGED <<storeVars, last, opened, cbuf, cbHist, tree>>

\* while data.shape[0] > self.size - self.count
CoTest(t) ==
    LET loc == proc.tasks[t]
    IN  /\ Runs(t)
        /\ loc.pc = "test"
        /\ CoStep(t, [loc EXCEPT !.pc = IF loc.n > cbuf.size - cbuf.count
                                        THEN "wait" ELSE "exit"], proc.locked)
        /\ UNCHANGED <<storeVars, last, opened, cbuf, cbHist, tree>>

\* await self._space.wait(): release the lock and wait to be notified.
CoWait(t) ==
    LET loc == proc.tasks[t]
    IN  /\ Runs(t)
        /\ loc.pc = "wait"
        /\ CoStep(t, [loc EXCEPT !.pc = "waiting", !.waited = TRUE], FALSE)
        /\ UNCHANGED <<storeVars, last, opened, cbuf, cbHist, tree>>

\* self._space.notify_all(): every waiter goes on to take the lock again.
CoNotifyAll(t) ==
    LET loc == proc.tasks[t]
        woken == [u \in Tasks |->
                     IF proc.tasks[u].pc = "waiting"
                     THEN [proc.tasks[u] EXCEPT !.pc = "reacquire"]
                     ELSE proc.tasks[u]]
    IN  /\ Runs(t)
        /\ loc.pc = "notify_all"
        /\ proc' = [proc EXCEPT !.tasks = [woken EXCEPT ![t] = [loc EXCEPT !.pc = "exit"]],
                                !.running = t]
        /\ last' = Call("notify", Cardinality({u \in Tasks : proc.tasks[u].pc = "waiting"}),
                        None, Unset, FALSE, "ok", <<>>)
        /\ UNCHANGED <<storeVars, opened, cbuf, cbHist, tree>>

\* The end of `async with self._space:`: release the lock.
CoExit(t) ==
    LET loc == proc.tasks[t]
    IN  /\ Runs(t)
        /\ loc.pc = "exit"
        /\ CoStep(t, IF t \in BufWriters THEN [loc EXCEPT !.pc = "write"] ELSE CoIdle, FALSE)
        /\ UNCHANGED <<storeVars, last, opened, cbuf, cbHist, tree>>

\* self._write(data), the last statement of try_write.
\* had: the call has waited.
CoWrite(t) ==
    LET loc == proc.tasks[t]
    IN  /\ Runs(t)
        /\ loc.pc = "write"
        /\ cbuf' = Write_(cbuf, NextData(cbHist.written, loc.n))
        /\ cbHist' = [cbHist EXCEPT !.written = @ + loc.n]
        /\ CoStep(t, CoIdle, proc.locked)
        /\ last' = Call("try_write", loc.n, None, Unset, loc.waited, "ok", <<>>)
        /\ UNCHANGED <<storeVars, opened, tree>>

\* read(n), called by code that runs between two tasks.
CoRead ==
    \E n \in Counts :
        LET res == Read(cbuf, n)
        IN  /\ proc.running = None
            /\ cbuf' = res.st
            /\ cbHist' = [cbHist EXCEPT !.read = @ \o res.ret]
            /\ last' = Call("read", n, None, Unset,
                            cbuf.r + Len(res.ret) > cbuf.size, res.exc, res.ret)
            /\ UNCHANGED <<storeVars, opened, tree, proc>>

\* ret is a sequence of elements in every call of these specifications.
InitTryWrite ==
    /\ InitStoresIdle
    /\ last = [NoCall EXCEPT !.ret = <<>>]
    /\ \E size \in 1..MaxSize : cbuf = NewBuffer(EmptyBuffer(size))
    /\ cbHist = [written |-> 0, read |-> <<>>]
    /\ opened = Idle /\ tree = Idle
    /\ proc = NewLoop

TaskStep(t) ==
    \/ CoAcquire(t)
    \/ CoTest(t)
    \/ CoWait(t)
    \/ CoNotifyAll(t)
    \/ CoExit(t)
    \/ CoWrite(t)

NextTryWrite ==
    \/ \E t \in BufWriters : StartTryWrite(t)
    \/ StartNotify
    \/ CoRead
    \/ \E t \in Tasks : CoAcquire(t)
    \/ \E t \in Tasks : CoTest(t)
    \/ \E t \in Tasks : CoWait(t)
    \/ \E t \in Tasks : CoNotifyAll(t)
    \/ \E t \in Tasks : CoExit(t)
    \/ \E t \in Tasks : CoWrite(t)

SpecTryWrite == InitTryWrite /\ [][NextTryWrite]_vars

\* The loop runs the ready tasks in turn: a task that can take a step again
\* and again, whatever the other tasks do in between, takes it in the end
\* (every step of a task changes proc).  Nothing obliges the callers to
\* start a call.
SpecTryWriteFair == SpecTryWrite /\ \A t \in Tasks : SF_proc(TaskStep(t))

----------------------------------------------------------------------------
(* Tree (tree.py) *)

\* The node names a program uses; a tree is created with the name "r".
Names == {"r", "a", "b", "c"}

\* node.parent is None; max_depth is None; index is None (an index is <<i>>).
NoParent == "None"
NoDepth == 0 - 1
NoIndex == <<>>

\* BaseTree.__init__ with root=None: the name index holds the root node.  A
\* node is known by its name: parent and children of a node are names.
NewTree(name, max_depth) ==
    [name |-> name, max_depth |-> max_depth,
     parent |-> [n \in {name} |-> NoParent],
     children |-> [n \in {name} |-> <<>>]]

\* The keys of __nodes, and __contains__.
Nodes(t) == DOMAIN t.parent

TreeContains(t, node_name) == node_name \in Nodes(t)

\* BaseNode.index: parent.children.index(self), the first child equal by name.
Index(t, n) ==
    LET ch == t.children[t.parent[n]]
    IN  (CHOOSE i \in 1..Len(ch) : ch[i] = n /\ \A j \in 1..(i - 1) : ch[j] # n) - 1

\* BaseNode.depth: len(uid), one entry per parent link up to the root.
RECURSIVE Depth(_, _)
Depth(t, n) == IF t.parent[n] = NoParent THEN 0 ELSE 1 + Depth(t, t.parent[n])

\* _traverse(node) of __iter__: the node and all below it.
RECURSIVE Traverse(_, _)
Traverse(t, n) ==
    {n} \cup UNION {Traverse(t, t.children[n][i]) : i \in 1..Len(t.children[n])}

\* _insert without the test for a name that is already in the tree.
TreeInsert__NoNameCheck(t, node_name, parent, index) ==
    LET kids == IF index = NoIndex
                THEN Append(t.children[parent], node_name)
                ELSE RefInsert(t.children[parent], index[1], node_name)
    IN  IF t.max_depth # NoDepth /\ Depth(t, parent) >= t.max_depth
        THEN Result(t, "MaxDepthExceededError", None)
        ELSE Result([t EXCEPT
                        !.parent = [n \in Nodes(t) \cup {node_name} |->
                                       IF n = node_name THEN parent ELSE t.parent[n]],
                        !.children = [n \in Nodes(t) \cup {node_name} |->
                                         IF n = node_name THEN <<>>
                                         ELSE IF n = parent THEN kids
                                         ELSE t.children[n]]],
                    "ok", None)

\* _insert(node, index) for a node whose parent is a node of the tree.
TreeInsert_(t, node_name, parent, index) ==
    LET kids == IF index = NoIndex
                THEN Append(t.children[parent], node_name)
                ELSE RefInsert(t.children[parent], index[1], node_name)
    IN  IF TreeContains(t, node_name) THEN Result(t, "ValueError", None)
        ELSE IF t.max_depth # NoDepth /\ Depth(t, parent) >= t.max_depth
        THEN Result(t, "MaxDepthExceededError", None)
        ELSE Result([t EXCEPT
                        !.parent = [n \in Nodes(t) \cup {node_name} |->
                                       IF n = node_name THEN parent ELSE t.parent[n]],
                        !.children = [n \in Nodes(t) \cup {node_name} |->
                                         IF n = node_name THEN <<>>
                                         ELSE IF n = parent THEN kids
                                         ELSE t.children[n]]],
                    "ok", None)

\* insert(parent_name, node_name, index)
TreeInsert(t, parent_name, node_name, index) ==
    IF ~TreeContains(t, parent_name) THEN Result(t, "KeyError", None)
    ELSE TreeInsert_(t, node_name, parent_name, index)

\* __setitem__(node_name, node) with a dict: [parent_name, node_name, index].
TreeSetItem(t, node_name, node) ==
    IF node_name # node.node_name THEN Result(t, "ValueError", None)
    ELSE TreeInsert(t, node.parent_name, node.node_name, node.index)

\* pop(node_name) of a node that is in the tree and has a parent: out of the
\* parent's children, then the children one by one, then out of __nodes.
RECURSIVE PopNode(_, _)
RECURSIVE PopChildren(_, _)
PopChildren(t, kids) ==
    IF kids = <<>> THEN t ELSE PopChildren(PopNode(t, Head(kids)), Tail(kids))

PopNode(t, node_name) ==
    LET p == t.parent[node_name]
        t1 == [t EXCEPT !.children[p] = RefDelete(@, Index(t, node_name))]
        t2 == PopChildren(t1, t1.children[node_name])
    IN  [t2 EXCEPT !.parent = [n \in Nodes(t2) \ {node_name} |-> t2.parent[n]],
                   !.children = [n \in Nodes(t2) \ {node_name} |-> t2.children[n]]]

\* pop() that hands the children of the node to its parent.
TreePop_KeepsChildren(t, node_name) ==
    IF ~TreeContains(t, node_name) THEN Result(t, "KeyError", None)
    ELSE IF t.parent[node_name] = NoParent THEN Result(t, "ValueError", None)
    ELSE LET p == t.parent[node_name]
             kids == RefDelete(t.children[p], Index(t, node_name)) \o t.children[node_name]
         IN  Result([t EXCEPT
                        !.parent = [n \in Nodes(t) \ {node_name} |->
                                       IF t.parent[n] = node_name THEN p ELSE t.parent[n]],
                        !.children = [n \in Nodes(t) \ {node_name} |->
                                         IF n = p THEN kids ELSE t.children[n]]],
                    "ok", node_name)

\* pop(node_name)
TreePop(t, node_name) ==
    IF ~TreeContains(t, node_name) THEN Result(t, "KeyError", None)
    ELSE IF t.parent[node_name] = NoParent THEN Result(t, "ValueError", None)
    ELSE Result(PopNode(t, node_name), "ok", node_name)

\* The node object keeps its place in every list and link that holds it, so
\* giving it a new name shows wherever its old name stood.
Renamed(n, node_name, new_name) == IF n = node_name THEN new_name ELSE n

\* rename_node() without the test for a name that is already in the tree.
RenameNode_NoNameCheck(t, node_name, new_name) ==
    LET old(n) == IF n = new_name THEN node_name ELSE n
        keys == (Nodes(t) \ {node_name}) \cup {new_name}
    IN  IF ~TreeContains(t, node_name) THEN Result(t, "KeyError", None)
        ELSE Result([t EXCEPT
                        !.parent = [n \in keys |->
                                       Renamed(t.parent[old(n)], node_name, new_name)],
                        !.children = [n \in keys |->
                                         [i \in DOMAIN t.children[old(n)] |->
                                             Renamed(t.children[old(n)][i], node_name, new_name)]]],
                    "ok", None)

\* rename_node(node_name, new_name): __name of the tree is not touched.
RenameNode(t, node_name, new_name) ==
    LET old(n) == IF n = new_name THEN node_name ELSE n
        keys == (Nodes(t) \ {node_name}) \cup {new_name}
    IN  IF ~TreeContains(t, node_name) THEN Result(t, "KeyError", None)
        ELSE IF new_name = node_name THEN Result(t, "ok", None)
        ELSE IF TreeContains(t, new_name) THEN Result(t, "ValueError", None)
        ELSE Result([t EXCEPT
                        !.parent = [n \in keys |->
                                       Renamed(t.parent[old(n)], node_name, new_name)],
                        !.children = [n \in keys |->
                                         [i \in DOMAIN t.children[old(n)] |->
                                             Renamed(t.children[old(n)][i], node_name, new_name)]]],
                    "ok", None)

\* The setter of name: rename_node(self.__name, new_name), then __name.
SetName(t, new_name) ==
    LET r == RenameNode(t, t.name, new_name)
    IN  IF r.exc # "ok" THEN r ELSE Result([r.st EXCEPT !.name = new_name], "ok", None)

\* The setter of max_depth; `for node in self` starts at self[self.name],
\* which raises KeyError when no node has that name.
SetMaxDepth(t, new_max) ==
    IF new_max # NoDepth /\ (t.max_depth = NoDepth \/ new_max < t.max_depth)
    THEN IF ~TreeContains(t, t.name) THEN Result(t, "KeyError", None)
         ELSE IF \E n \in Traverse(t, t.name) : Depth(t, n) > new_max
         THEN Result(t, "MaxDepthExceededError", None)
         ELSE Result([t EXCEPT !.max_depth = new_max], "ok", None)
    ELSE Result([t EXCEPT !.max_depth = new_max], "ok", None)

\* The setter of index on the node tree[node_name]: out of the parent's
\* children at its place, then list.insert(new_index, node).
SetIndex(t, node_name, new_index) ==
    IF ~TreeContains(t, node_name) THEN Result(t, "KeyError", None)
    ELSE IF t.parent[node_name] = NoParent THEN Result(t, "ValueError", None)
    ELSE Result([t EXCEPT !.children[t.parent[node_name]] =
                              RefInsert(RefDelete(@, Index(t, node_name)), new_index, node_name)],
                "ok", None)

\* An index argument: None, or a position from before the first child to
\* beyond the last.
TreeIndices == {NoIndex} \cup {<<i>> : i \in (0 - 1)..2}

Depths == {NoDepth} \cup 0..MaxDepth

\* A call on the tree leaves everything else alone.
TreeCall(op, key, val, dflt, had, r) ==
    /\ tree' = r.st
    /\ last' = Call(op, key, val, dflt, had, r.exc, r.ret)
    /\ UNCHANGED <<storeVars, opened, cbuf, cbHist, proc>>

TreeDoInsert(indices) ==
    \E parent_name \in Names, node_name \in Names, index \in indices :
        TreeCall("insert", parent_name, node_name, index, TreeContains(tree, node_name),
                 TreeInsert(tree, parent_name, node_name, index))

\* tree[node_name] = dict(parent_name=..., node_name=..., index=None); dflt
\* holds the node_name of the dict.
TreeDoSetItem ==
    \E parent_name \in Names, node_name \in Names, key \in Names :
        TreeCall("setitem", parent_name, key, node_name, TreeContains(tree, node_name),
                 TreeSetItem(tree, key, [parent_name |-> parent_name,
                                         node_name |-> node_name, index |-> NoIndex]))

\* had: the node has children.
TreeDoPop ==
    \E node_name \in Names :
        TreeCall("pop", node_name, None, Unset,
                 TreeContains(tree, node_name) /\ tree.children[node_name] # <<>>,
                 TreePop(tree, node_name))

TreeDoRename ==
    \E node_name \in Names, new_name \in Names :
        TreeCall("rename_node", node_name, new_name, Unset, TreeContains(tree, new_name),
                 RenameNode(tree, node_name, new_name))

\* had: a node has the name of the tree.
TreeDoSetName ==
    \E new_name \in Names :
        TreeCall("name", tree.name, new_name, Unset, TreeContains(tree, tree.name),
                 SetName(tree, new_name))

\* last.val holds the new max_depth, last.dflt the old one; had: some node of
\* the tree is deeper than the new max_depth.
TreeDoSetMaxDepth ==
    \E new_max \in Depths :
        TreeCall("max_depth", None, new_max, tree.max_depth,
                 new_max # NoDepth /\ \E n \in Nodes(tree) : Depth(tree, n) > new_max,
                 SetMaxDepth(tree, new_max))

InitTree ==
    /\ InitStoresIdle
    /\ \E max_depth \in Depths : tree = NewTree("r", max_depth)
    /\ last = Call("tree", "r", None, Unset, FALSE, "ok", None)
    /\ opened = Idle /\ cbuf = Idle /\ cbHist = Idle /\ proc = Idle

\* Every operation that changes the tree; children are added last or first.
NextTree ==
    \/ TreeDoInsert({NoIndex, <<0>>})
    \/ TreeDoPop
    \/ TreeDoRename
    \/ TreeDoSetName
    \/ TreeDoSetMaxDepth

SpecTree == InitTree /\ [][NextTree]_vars

\* A tree created with a max_depth, under insert, pop, rename_node and
\* assignments of max_depth.
InitTreeDepth == InitTree /\ tree.max_depth # NoDepth

NextTreeDepth ==
    \/ TreeDoInsert({NoIndex, <<0>>})
    \/ TreeDoPop
    \/ TreeDoRename
    \/ TreeDoSetMaxDepth

SpecTreeDepth == InitTreeDepth /\ [][NextTreeDepth]_vars

\* Adding and removing nodes, with every kind of index.
NextTreeInsert ==
    \/ TreeDoInsert(TreeIndices)
    \/ TreeDoSetItem
    \/ TreeDoPop

SpecTreeInsert == InitTree /\ [][NextTreeInsert]_vars

\* tree[node_name].index = new_index; had: the node changes place.
TreeDoSetIndex ==
    \E node_name \in Names, new_index \in (0 - 1)..2 :
        LET r == SetIndex(tree, node_name, new_index)
        IN  TreeCall("index", node_name, None, <<new_index>>, r.st # tree, r)

\* A tree created with only a root and no max_depth, under insert, pop,
\* rename_node and assignments of a node's index.
InitTreeIndex == InitTree /\ tree.max_depth = NoDepth

NextTreeIndex ==
    \/ TreeDoInsert({NoIndex, <<0>>})
    \/ TreeDoPop
    \/ TreeDoRename
    \/ TreeDoSetIndex

SpecTreeIndex == InitTreeIndex /\ [][NextTreeIndex]_vars

----------------------------------------------------------------------------
(* RunSession.run (adk/app.py) *)

\* AdkApp.N_RETRIES
N_RETRIES == 10

\* The most events the runner yields during one call of run.
MaxEvents == 2

\* One call of run(prompt), a generator.  i: the loop variable; attempts: the
\* calls of run_async so far; failed: those that raised ClientConnectionError;
\* errors: the error messages yielded; events: what run_async yielded and
\* how many of those run passed on; completed: an attempt ended without an
\* exception; refreshes: the calls of refresh; exc: what run raised.
NewRun ==
    [pc |-> "for", i |-> 0, attempts |-> 0, failed |-> 0, errors |-> 0,
     events |-> 0, yielded |-> 0, completed |-> FALSE, refreshes |-> 0, exc |-> "ok"]

\* range(1, N_RETRIES + 2): one round too many.
LoopNext_OneMore(i) == IF i < N_RETRIES + 1 THEN i + 1 ELSE 0

\* for i in range(1, N_RETRIES + 1): the value after i, 0 when the range is
\* used up.
LoopNext(i) == IF i < N_RETRIES THEN i + 1 ELSE 0

\* The head of the for loop: the next round, or the else clause of the loop.
RunFor ==
    /\ proc.pc = "for"
    /\ proc' = IF LoopNext(proc.i) = 0
               THEN [proc EXCEPT !.pc = "else"]
               ELSE [proc EXCEPT !.pc = "try", !.i = LoopNext(proc.i),
                                 !.attempts = @ + 1]
    /\ UNCHANGED <<storeVars, last, opened, cbuf, cbHist, tree>>

\* run_async yields an event; run passes it on when app.check(ev) holds.
RunEvent ==
    \E check \in BOOLEAN :
        /\ proc.pc = "try"
        /\ proc.events < MaxEvents
        /\ proc' = [proc EXCEPT !.events = @ + 1,
                                !.yielded = IF check THEN @ + 1 ELSE @]
        /\ UNCHANGED <<storeVars, last, opened, cbuf, cbHist, tree>>

\* run_async raises ClientConnectionError: the except clause.
RunConnectionError ==
    /\ proc.pc = "try"
    /\ proc' = [proc EXCEPT !.pc = "except", !.failed = @ + 1]
    /\ UNCHANGED <<storeVars, last, opened, cbuf, cbHist, tree>>

\* The yield of the except clause: the error message, then the loop goes on.
RunYieldError ==
    /\ proc.pc = "except"
    /\ proc' = [proc EXCEPT !.pc = "for", !.errors = @ + 1]
    /\ UNCHANGED <<storeVars, last, opened, cbuf, cbHist, tree>>

\* run_async raises something else: run does not catch it.
RunOtherError ==
    /\ proc.pc = "try"
    /\ proc' = [proc EXCEPT !.pc = "raised", !.exc = "Exception"]
    /\ UNCHANGED <<storeVars, last, opened, cbuf, cbHist, tree>>

\* run_async ends: the else clause of the try breaks out of the loop.
RunBreak ==
    /\ proc.pc = "try"
    /\ proc' = [proc EXCEPT !.pc = "refresh", !.completed = TRUE]
    /\ UNCHANGED <<storeVars, last, opened, cbuf, cbHist, tree>>

\* The else clause of the for loop: raise OSError from err.
RunRaise ==
    /\ proc.pc = "else"
    /\ proc' = [proc EXCEPT !.pc = "raised", !.exc = "OSError"]
    /\ UNCHANGED <<storeVars, last, opened, cbuf, cbHist, tree>>

\* await self.refresh(): the session is found, or InvalidSessionException.
RunRefresh ==
    \E found \in BOOLEAN :
        /\ proc.pc = "refresh"
        /\ proc' = IF found
                   THEN [proc EXCEPT !.pc = "done", !.refreshes = @ + 1]
                   ELSE [proc EXCEPT !.pc = "raised", !.refreshes = @ + 1,
                                     !.exc = "InvalidSessionException"]
        /\ UNCHANGED <<storeVars, last, opened, cbuf, cbHist, tree>>

InitRun ==
    /\ InitStoresIdle
    /\ last = NoCall
    /\ opened = Idle /\ cbuf = Idle /\ cbHist = Idle /\ tree = Idle
    /\ proc = NewRun

NextRun ==
    \/ RunFor
    \/ RunEvent
    \/ RunConnectionError
    \/ RunYieldError
    \/ RunOtherError
    \/ RunBreak
    \/ RunRaise
    \/ RunRefresh

SpecRun == InitRun /\ [][NextRun]_vars

----------------------------------------------------------------------------
(* The ordered store, one file operation at a time *)

\* What a writer holds between the file operations of one call: where it is,
\* the call, the index and the item, the indices _shift_files still has to
\* visit, the shift, and the length read by _len_delta; `again` tells a
\* process that makes call after call from one that ends after its call.
WIdle ==
    [pc |-> "idle", op |-> "none", idx |-> 0, item |-> None,
     order |-> <<>>, shift |-> 0, meta |-> 0, again |-> TRUE]

\* The writer when its call has returned or raised; a process that has ended
\* is remembered with the call it made.
Returned(loc) ==
    IF loc.again THEN WIdle
    ELSE [WIdle EXCEPT !.pc = "done", !.again = FALSE, !.op = loc.op]

\* The index of insert() without min(idx, current_len).
InsertIndex_NoMin(idx, current_len) ==
    IF idx < 0
    THEN (IF current_len + idx > 0 THEN current_len + idx ELSE 0)
    ELSE idx

\* insert(): idx = max(0, current_len + idx) if idx < 0 else min(idx, current_len)
InsertIndex(idx, current_len) ==
    IF idx < 0
    THEN (IF current_len + idx > 0 THEN current_len + idx ELSE 0)
    ELSE (IF idx < current_len THEN idx ELSE current_len)

\* _shift_files visiting the indices downwards whatever the shift.
ShiftOrder_Descending(start_idx, len, shift) == Reversed(Range(start_idx, len))

\* _shift_files visiting the indices upwards whatever the shift.
ShiftOrder_Ascending(start_idx, len, shift) == Range(start_idx, len)

\* _shift_files: range(start_idx, len(self)), reversed for a shift up.
ShiftOrder(start_idx, len, shift) ==
    IF shift < 0 THEN Range(start_idx, len) ELSE Reversed(Range(start_idx, len))

\* _len_delta adding to the length that is in the metadata when it writes.
WriteBack_Rereads(st, meta, delta) == [st EXCEPT !.length = @ + delta]

\* _len_delta, second half: the length read earlier plus delta is written.
WriteBack(st, meta, delta) == [st EXCEPT !.length = meta + delta]

\* The delta of the call's _len_delta, and where the call goes after the shift.
Delta(op) == IF op = "pop" THEN 0 - 1 ELSE 1

AfterShift(loc) ==
    IF loc.order # <<>> THEN "exists"
    ELSE IF loc.op = "insert" THEN "insert_write" ELSE "delta_read"

\* The reference list after the call of a writer has returned; the index is
\* beyond the list only when another writer has returned in between.
Completed(ref, loc) ==
    IF loc.op = "append" THEN Append(ref, loc.item)
    ELSE IF loc.op = "insert" THEN RefInsert(ref, loc.idx, loc.item)
    ELSE IF loc.idx < Len(ref) THEN RefDelete(ref, loc.idx)
    ELSE ref

Busy == {w \in DOMAIN proc : proc[w].pc \notin {"idle", "done"}}

\* One file operation of writer w: last.op names it, last.key is the position
\* or length it touched, last.dflt the writer, last.ret the call it is part of.
WriterStep(w, loc, st, ref, call) ==
    /\ proc' = [proc EXCEPT ![w] = loc]
    /\ plist' = st
    /\ refList' = ref
    /\ last' = call
    /\ UNCHANGED <<hashKind, dict, live, opened, cbuf, cbHist, tree>>

\* An exception ends the call.
Raise(w, step, key, exc) ==
    WriterStep(w, Returned(proc[w]), plist, refList,
               Call(step, key, None, w, FALSE, exc, proc[w].op))

\* append(): len(self)
StartAppend(w) ==
    /\ proc[w].pc = "idle"
    /\ Len(refList) + Cardinality(Busy) < MaxLen
    /\ \E item \in Values :
        WriterStep(w, [proc[w] EXCEPT !.pc = "append_write", !.op = "append",
                                    !.idx = Len_(plist), !.item = item],
                   plist, refList,
                   Call("read_len", Len_(plist), item, w, FALSE, "ok", "append"))

\* append(): write_bytes; had: a file was at the path.
AppendWrite(w) ==
    /\ proc[w].pc = "append_write"
    /\ LET loc == proc[w]
           wr == WriteBytes(plist, ListFilePath(loc.idx), PickleDumps(loc.item))
       IN  WriterStep(w, [loc EXCEPT !.pc = "delta_read"], wr.st, refList,
                      Call("write", loc.idx, loc.item, w,
                           Exists(plist, ListFilePath(loc.idx)), "ok", loc.op))

\* _len_delta: meta = self._read_meta()
LenDeltaRead(w) ==
    /\ proc[w].pc = "delta_read"
    /\ LET loc == proc[w]
       IN  WriterStep(w, [loc EXCEPT !.pc = "delta_write", !.meta = Len_(plist)],
                      plist, refList,
                      Call("read_meta", Len_(plist), None, w, FALSE, "ok", loc.op))

\* _len_delta: self._meta.write_text(...), and the call returns; had: the
\* length in the metadata is no longer the one that was read.
LenDeltaWrite(w) ==
    /\ proc[w].pc = "delta_write"
    /\ LET loc == proc[w]
       IN  WriterStep(w, Returned(loc), WriteBack(plist, loc.meta, Delta(loc.op)),
                      Completed(refList, loc),
                      Call("write_meta", loc.meta + Delta(loc.op), loc.item, w,
                           Len_(plist) # loc.meta, "ok", loc.op))

\* insert(): current_len = len(self) and the clamped index
StartInsert(w) ==
    /\ proc[w].pc = "idle"
    /\ Len(refList) + Cardinality(Busy) < MaxLen
    /\ \E idx \in Indices, item \in Values :
        WriterStep(w, [proc[w] EXCEPT !.pc = "shift_range", !.op = "insert",
                                    !.idx = InsertIndex(idx, Len_(plist)),
                                    !.item = item, !.shift = 1],
                   plist, refList,
                   Call("read_len", Len_(plist), item, w, FALSE, "ok", "insert"))

\* _shift_files: start_to_end = range(start_idx, len(self)) and its direction
ShiftRange(w) ==
    /\ proc[w].pc = "shift_range"
    /\ LET loc == proc[w]
           start_idx == IF loc.op = "insert" THEN loc.idx ELSE loc.idx + 1
           to == [loc EXCEPT !.order = ShiftOrder(start_idx, Len_(plist), loc.shift)]
       IN  WriterStep(w, [to EXCEPT !.pc = AfterShift(to)], plist, refList,
                      Call("read_len", Len_(plist), None, w, FALSE, "ok", loc.op))

\* _shift_files: old_path.exists()
ShiftExists(w) ==
    /\ proc[w].pc = "exists"
    /\ LET loc == proc[w]
           i == Head(loc.order)
           there == Exists(plist, ListFilePath(i))
           to == IF there THEN loc ELSE [loc EXCEPT !.order = Tail(@)]
       IN  WriterStep(w, [to EXCEPT !.pc = IF there THEN "rename" ELSE AfterShift(to)],
                      plist, refList, Call("exists", i, None, w, there, "ok", loc.op))

\* _shift_files: old_path.rename(new_path); last.val is the new position and
\* had tells that a file was there.
ShiftRename(w) ==
    /\ proc[w].pc = "rename"
    /\ LET loc == proc[w]
           i == Head(loc.order)
           to == [loc EXCEPT !.order = Tail(@)]
       IN  IF ~Exists(plist, ListFilePath(i))
           THEN Raise(w, "rename", i, "FileNotFoundError")
           ELSE WriterStep(w, [to EXCEPT !.pc = AfterShift(to)],
                           Rename(plist, ListFilePath(i), ListFilePath(i + loc.shift)),
                           refList,
                           Call("rename", i, None, w,
                                Exists(plist, ListFilePath(i + loc.shift)), "ok", loc.op))

\* insert(): write_bytes at the index
InsertWrite(w) ==
    /\ proc[w].pc = "insert_write"
    /\ LET loc == proc[w]
           wr == WriteBytes(plist, ListFilePath(loc.idx), PickleDumps(loc.item))
       IN  WriterStep(w, [loc EXCEPT !.pc = "delta_read"], wr.st, refList,
                      Call("write", loc.idx, loc.item, w,
                           Exists(plist, ListFilePath(loc.idx)), "ok", loc.op))

\* pop(): current_len = len(self) and the two IndexErrors
StartPop(w) ==
    /\ proc[w].pc = "idle"
    /\ \E idx \in Indices :
        LET current_len == Len_(plist)
            i == IF idx < 0 THEN current_len + idx ELSE idx
        IN  IF current_len = 0 \/ i < 0 \/ i >= current_len
            THEN WriterStep(w, Returned(proc[w]), plist, refList,
                            Call("read_len", current_len, None, w, FALSE, "IndexError", "pop"))
            ELSE WriterStep(w, [proc[w] EXCEPT !.pc = "pop_validate", !.op = "pop",
                                             !.idx = i, !.shift = 0 - 1],
                            plist, refList,
                            Call("read_len", current_len, None, w, FALSE, "ok", "pop"))

\* pop(): item = self[idx], the len(self) of _validate_index
PopValidate(w) ==
    /\ proc[w].pc = "pop_validate"
    /\ LET loc == proc[w]
       IN  IF loc.idx >= Len_(plist)
           THEN Raise(w, "read_len", Len_(plist), "IndexError")
           ELSE WriterStep(w, [loc EXCEPT !.pc = "pop_read"], plist, refList,
                           Call("read_len", Len_(plist), None, w, FALSE, "ok", loc.op))

\* pop(): item = self[idx], the read_bytes
PopRead(w) ==
    /\ proc[w].pc = "pop_read"
    /\ LET loc == proc[w]
           rd == ReadBytes(plist, ListFilePath(loc.idx))
       IN  IF rd.exc # "ok"
           THEN Raise(w, "read", loc.idx, rd.exc)
           ELSE WriterStep(w, [loc EXCEPT !.pc = "pop_unlink", !.item = PickleLoads(rd.ret)],
                           plist, refList,
                           Call("read", loc.idx, PickleLoads(rd.ret), w, FALSE, "ok", loc.op))

\* pop(): file_path.unlink()
PopUnlink(w) ==
    /\ proc[w].pc = "pop_unlink"
    /\ LET loc == proc[w]
       IN  IF ~Exists(plist, ListFilePath(loc.idx))
           THEN Raise(w, "unlink", loc.idx, "FileNotFoundError")
           ELSE WriterStep(w, [loc EXCEPT !.pc = "shift_range"],
                           Unlink(plist, ListFilePath(loc.idx)), refList,
                           Call("unlink", loc.idx, loc.item, w, FALSE, "ok", loc.op))

\* One file operation of writer w on the keyed store; last.key is the key.
KeyedStep(w, loc, st, call) ==
    /\ proc' = [proc EXCEPT ![w] = loc]
    /\ dict' = st
    /\ last' = call
    /\ UNCHANGED <<hashKind, live, plist, refList, opened, cbuf, cbHist, tree>>

KeyedCall(w, step, had, exc) ==
    Call(step, proc[w].idx, proc[w].item, w, had, exc, proc[w].op)

\* __setitem__: file_path.exists(); idx holds the key and item the value.
SetExists(w) ==
    /\ proc[w].pc = "idle"
    /\ \E key \in Keys, value \in Values :
        LET there == Exists(dict, GetFilePath(key))
        IN  KeyedStep(w, [proc[w] EXCEPT !.pc = IF there THEN "set_save" ELSE "keyed_delta_read",
                                         !.op = "set", !.idx = key, !.item = value],
                      dict, Call("exists", key, value, w, there, "ok", "set"))

\* _len_delta of the keyed store: meta = self._read_meta()
KeyedLenDeltaRead(w) ==
    /\ proc[w].pc = "keyed_delta_read"
    /\ KeyedStep(w, [proc[w] EXCEPT !.pc = "keyed_delta_write", !.meta = Len_(dict)],
                 dict, KeyedCall(w, "read_meta", FALSE, "ok"))

\* _len_delta of the keyed store: the write; a set goes on to the mkdir, a
\* pop returns its value.
KeyedLenDeltaWrite(w) ==
    /\ proc[w].pc = "keyed_delta_write"
    /\ LET loc == proc[w]
           st == WriteBack(dict, loc.meta, Delta(loc.op))
       IN  KeyedStep(w, IF loc.op = "set" THEN [loc EXCEPT !.pc = "set_mkdir"]
                        ELSE Returned(loc),
                     st, KeyedCall(w, "write_meta", Len_(dict) # loc.meta, "ok"))

\* __setitem__: file_path.parent.mkdir(parents=True, exist_ok=True)
SetMkdir(w) ==
    /\ proc[w].pc = "set_mkdir"
    /\ LET loc == proc[w]
           mk == Mkdir(dict, Parent(GetFilePath(loc.idx)))
       IN  KeyedStep(w, IF mk.exc = "ok" THEN [loc EXCEPT !.pc = "set_save"] ELSE Returned(loc),
                     mk.st, KeyedCall(w, "mkdir", FALSE, mk.exc))

\* __setitem__: self._save(file_path, pair), and the call returns.
SetSave(w) ==
    /\ proc[w].pc = "set_save"
    /\ LET loc == proc[w]
           sv == Save(dict, GetFilePath(loc.idx), Pair(loc.idx, loc.item))
       IN  KeyedStep(w, Returned(loc), sv.st,
                     KeyedCall(w, "write", Exists(dict, GetFilePath(loc.idx)), sv.exc))

\* pop(): `key not in self`, with the default or the KeyError of a miss
KeyedPopExists(w) ==
    /\ proc[w].pc = "idle"
    /\ \E key \in Keys, defaultvalue \in {Unset, None} :
        LET there == Contains(dict, key)
            to == [proc[w] EXCEPT !.op = "pop", !.idx = key]
        IN  KeyedStep(w, IF there THEN [to EXCEPT !.pc = "keyed_pop_load"] ELSE Returned(to),
                      dict,
                      Call("exists", key, None, w, there,
                           IF there \/ defaultvalue # Unset THEN "ok" ELSE "KeyError", "pop"))

\* pop(): value = self._load(file_path).value
KeyedPopLoad(w) ==
    /\ proc[w].pc = "keyed_pop_load"
    /\ LET loc == proc[w]
           ld == Load(dict, GetFilePath(loc.idx))
       IN  KeyedStep(w, IF ld.exc = "ok"
                        THEN [loc EXCEPT !.pc = "keyed_pop_unlink", !.item = ld.ret.value]
                        ELSE Returned(loc),
                     dict, KeyedCall(w, "read", FALSE, ld.exc))

\* pop(): file_path.unlink()
KeyedPopUnlink(w) ==
    /\ proc[w].pc = "keyed_pop_unlink"
    /\ KeyedStep(w, [proc[w] EXCEPT !.pc = "keyed_delta_read"],
                 Unlink(dict, GetFilePath(proc[w].idx)),
                 KeyedCall(w, "unlink", FALSE, "ok"))

\* extend() of an empty list by the items.
RECURSIVE ListStore(_)
ListStore(items) ==
    IF items = <<>> THEN FilesystemSetup
    ELSE LAppend(ListStore(SubSeq(items, 1, Len(items) - 1)), items[Len(items)]).st

\* The ordered store with the items, and the writers at rest.
InitWriterProcs(writers, again, items) ==
    /\ live = NoKeys
    /\ plist = ListStore(items)
    /\ refList = items
    /\ last = NoCall
    /\ proc = [w \in writers |-> [WIdle EXCEPT !.again = again]]
    /\ opened = Idle /\ cbuf = Idle /\ cbHist = Idle /\ tree = Idle

InitWriters(writers, again, items) ==
    /\ hashKind = "flat"
    /\ dict = FilesystemSetup
    /\ InitWriterProcs(writers, again, items)

\* One writer: append, insert and pop, one file operation at a time.
InitShift == InitWriters({"w1"}, TRUE, <<>>)

NextShift ==
    \/ \E w \in DOMAIN proc : StartAppend(w)
    \/ \E w \in DOMAIN proc : AppendWrite(w)
    \/ \E w \in DOMAIN proc : LenDeltaRead(w)
    \/ \E w \in DOMAIN proc : LenDeltaWrite(w)
    \/ \E w \in DOMAIN proc : StartInsert(w)
    \/ \E w \in DOMAIN proc : ShiftRange(w)
    \/ \E w \in DOMAIN proc : ShiftExists(w)
    \/ \E w \in DOMAIN proc : ShiftRename(w)
    \/ \E w \in DOMAIN proc : InsertWrite(w)
    \/ \E w \in DOMAIN proc : StartPop(w)
    \/ \E w \in DOMAIN proc : PopValidate(w)
    \/ \E w \in DOMAIN proc : PopRead(w)
    \/ \E w \in DOMAIN proc : PopUnlink(w)

SpecShift == InitShift /\ [][NextShift]_vars

\* A single writer that makes one call, on a keyed store that holds some
\* pairs or on an ordered store that holds some items, the length of either
\* being the number of its entry files.
InitSteps ==
    /\ \/ /\ hashKind \in HashKinds
          /\ \E pairs \in {ps \in PairSeqs \cup {<<>>} : AscendingKeys(ps)} :
                /\ dict = OtherStore(pairs)
                /\ Len_(dict) = Cardinality(DOMAIN dict.files)
          /\ InitWriterProcs({"w1"}, FALSE, <<>>)
       \/ /\ hashKind = "flat"
          /\ dict = FilesystemSetup
          /\ \E items \in UNION {[1..n -> Values] : n \in 0..MaxLen} :
                InitWriterProcs({"w1"}, FALSE, items)

NextSteps ==
    \/ \E w \in DOMAIN proc : SetExists(w)
    \/ \E w \in DOMAIN proc : KeyedLenDeltaRead(w)
    \/ \E w \in DOMAIN proc : KeyedLenDeltaWrite(w)
    \/ \E w \in DOMAIN proc : SetMkdir(w)
    \/ \E w \in DOMAIN proc : SetSave(w)
    \/ \E w \in DOMAIN proc : KeyedPopExists(w)
    \/ \E w \in DOMAIN proc : KeyedPopLoad(w)
    \/ \E w \in DOMAIN proc : KeyedPopUnlink(w)
    \/ NextShift

SpecSteps == InitSteps /\ [][NextSteps]_vars

\* One writer, or two on the same root, each making one call of append,
\* insert or pop on a list that holds some items.
InitShiftRace ==
    \E writers \in {{"w1"}, {"w1", "w2"}} :
        \E items \in UNION {[1..n -> Values] : n \in 0..(MaxLen - 1)} :
            InitWriters(writers, FALSE, items)

SpecShiftRace == InitShiftRace /\ [][NextShift]_vars

\* Two writers appending to the same root.
InitRace == InitWriters({"w1", "w2"}, TRUE, <<>>)

NextRace ==
    \/ \E w \in DOMAIN proc : StartAppend(w)
    \/ \E w \in DOMAIN proc : AppendWrite(w)
    \/ \E w \in DOMAIN proc : LenDeltaRead(w)
    \/ \E w \in DOMAIN proc : LenDeltaWrite(w)

SpecRace == InitRace /\ [][NextRace]_vars

----------------------------------------------------------------------------
(* Properties of the keyed store *)

\* The hash precondition of the engine's contract: distinct keys get distinct
\* paths, none of which is a leading part of another.
HashCollisionFree == HashInjective /\ HashNonNested

\* The entry files under the root, the metadata file excluded.
EntryFiles(st) == DOMAIN st.files

\* What get(key) hands to its caller: the exception and the value.
Outcome(r) == <<r.exc, r.ret>>

\* C1: with a hash that maps distinct keys to distinct, non-nested paths, after
\* every completed operation length() equals the number of live keys, which
\* equals the number of entry files under the root, and is never negative.
C1_LengthAccounting ==
    HashCollisionFree =>
        /\ Len_(dict) = Cardinality(DOMAIN live)
        /\ Len_(dict) = Cardinality(EntryFiles(dict))
        /\ Len_(dict) >= 0

\* A pop has completed and one of two stored keys is left.
C1_Witness ==
    /\ HashCollisionFree
    /\ last.op = "pop" /\ last.had /\ last.exc = "ok"
    /\ Cardinality(DOMAIN live) = 1
    /\ Len_(dict) = 1

\* C4: with an injective hash, get(k) returns the value of the latest set(k, v)
\* for as long as k is neither set again, popped nor cleared, whatever is done
\* to other keys in between.
C4_RoundTrip ==
    HashInjective =>
        \A k \in DOMAIN live : Outcome(GetItem(dict, k)) = <<"ok", live[k]>>

\* A key holds its value while a later call set or popped another key.
C4_Witness ==
    /\ HashInjective
    /\ last.op \in {"set", "pop"} /\ last.exc = "ok"
    /\ \E k \in DOMAIN live : k # last.key /\ Outcome(GetItem(dict, k)) = <<"ok", live[k]>>

\* C5: a set(k, v2) that completes makes get(k) return v2; it leaves length()
\* unchanged when k was present and adds exactly 1 when it was not.  Present
\* is `k in store`; with a collision-free hash that is the same as k being live.
C5_Overwrite ==
    [][(last'.op = "set" /\ last'.exc = "ok") =>
        /\ Outcome(GetItem(dict', last'.key)) = <<"ok", last'.val>>
        /\ Len_(dict') = Len_(dict) + (IF last'.had THEN 0 ELSE 1)
        /\ HashCollisionFree => (last'.had <=> last'.key \in DOMAIN live)]_vars

\* A set overwrote a present key with the value "b" and the length stayed 1.
C5_Witness ==
    /\ last.op = "set" /\ last.had /\ last.exc = "ok" /\ last.val = "b"
    /\ Len_(dict) = 1
    /\ Outcome(GetItem(dict, last.key)) = <<"ok", "b">>

\* The key recorded in the entry file at the path of `key`.
StoredKey(st, key) == ModelValidate(PickleLoads(st.files[GetFilePath(key)])).key

\* C6: for any hash, get(key) never returns a value stored under another key:
\* a value it returns is the one last set for that very key, and where the file
\* at hash(key) records a different key, get fails with the key-identity defect.
C6_CollisionDefense ==
    \A k \in Keys :
        /\ GetItem(dict, k).exc = "ok" =>
               k \in DOMAIN live /\ GetItem(dict, k).ret = live[k]
        /\ (GetFilePath(k) \in EntryFiles(dict) /\ StoredKey(dict, k) # k) =>
               GetItem(dict, k).exc = "AssertionError"

\* Two keys collide and get() of the one that lost the path raised the defect.
C6_Witness ==
    /\ ~HashInjective
    /\ last.op = "get" /\ last.exc = "AssertionError"
    /\ last.key \in DOMAIN live
    /\ StoredKey(dict, last.key) # last.key

\* C7: contains(key) is true iff root/hash(key) is an existing regular file, and
\* is false for every key that is not live.
C7_ContainsIffFile ==
    \A k \in Keys :
        /\ Contains(dict, k) <=> GetFilePath(k) \in EntryFiles(dict)
        /\ HashInjective /\ k \notin DOMAIN live => ~Contains(dict, k)

\* C8: get(key) of a key that is not present raises KeyError and getOr returns
\* the default (None when none is given); for a present key getOr returns the
\* stored value; none of them changes an entry or length().  Not present is
\* `key not in store`; with a collision-free hash that is every key not live.
C8_MissOnRead ==
    [][/\ last'.op \in {"get", "getOr"} => dict' = dict
       /\ (last'.op = "get" /\ ~last'.had) => last'.exc = "KeyError"
       /\ (last'.op = "getOr" /\ ~last'.had) =>
              last'.exc = "ok" /\ last'.ret = last'.dflt
       /\ (last'.op \in {"get", "getOr"} /\ HashCollisionFree) =>
              (last'.had <=> last'.key \in DOMAIN live)
       /\ (last'.op = "getOr" /\ HashCollisionFree /\ last'.key \in DOMAIN live) =>
              last'.exc = "ok" /\ last'.ret = live[last'.key]]_vars

\* getOr missed on a store that holds another key and returned the default.
C8_Witness ==
    /\ last.op = "getOr" /\ ~last.had /\ last.exc = "ok"
    /\ last.dflt = "b" /\ last.ret = "b"
    /\ last.key \notin DOMAIN live
    /\ Len_(dict) = 1

\* C9: with an injective hash, pop(k) of a live key returns the value last set
\* for k; afterwards contains(k) is false, get(k) raises KeyError, length() is
\* one less, and every other key reads as before.
C9_PopPresent ==
    [][(last'.op = "pop" /\ HashInjective /\ last'.key \in DOMAIN live) =>
        /\ last'.exc = "ok" /\ last'.ret = live[last'.key]
        /\ ~Contains(dict', last'.key)
        /\ GetItem(dict', last'.key).exc = "KeyError"
        /\ Len_(dict') = Len_(dict) - 1
        /\ \A j \in Keys \ {last'.key} :
               /\ Outcome(GetItem(dict', j)) = Outcome(GetItem(dict, j))
               /\ Contains(dict', j) <=> Contains(dict, j)]_vars

\* A pop removed one of two live keys and the other one is still readable.
C9_Witness ==
    /\ HashInjective
    /\ last.op = "pop" /\ last.had /\ last.exc = "ok" /\ last.ret \in Values
    /\ ~Contains(dict, last.key)
    /\ \E j \in DOMAIN live : j # last.key /\ GetItem(dict, j).exc = "ok"

\* C10: pop(k, default) of a key that is not present returns the default, an
\* explicit None included, and pop(k) without one raises KeyError; neither
\* changes an entry or length().  Not present is `k not in store`; with a
\* collision-free hash that is every key not live.
C10_PopAbsent ==
    [][/\ (last'.op = "pop" /\ ~last'.had) =>
              /\ dict' = dict /\ live' = live
              /\ last'.dflt # Unset => last'.exc = "ok" /\ last'.ret = last'.dflt
              /\ last'.dflt = Unset => last'.exc = "KeyError"
       /\ (last'.op = "pop" /\ HashCollisionFree /\ last'.key \notin DOMAIN live) =>
              ~last'.had]_vars

\* pop(k, None) missed on a store that holds another key and returned None.
C10_Witness ==
    /\ last.op = "pop" /\ ~last.had
    /\ last.dflt = None /\ last.exc = "ok" /\ last.ret = None
    /\ Len_(dict) = 1

----------------------------------------------------------------------------
(* Properties of the ordered store *)

\* C2: after every completed operation, the failed ones included, the entry
\* files under the root are named exactly 0, 1, ..., length()-1.
C2_Contiguity ==
    EntryFiles(plist) = {ListFilePath(i) : i \in 0..(Len_(plist) - 1)}

\* A call failed with IndexError or ValueError on a store that holds entries.
C2_Witness ==
    /\ last.exc \in {"IndexError", "ValueError"}
    /\ last.op \in {"lpop", "lset", "remove"}
    /\ Len_(plist) >= 2

\* C3: the store and a reference in-memory list fed the same calls agree
\* after every call: same length, and get(i) = reference[i] for every position.
C3_RefinesList ==
    /\ Len_(plist) = Len(refList)
    /\ \A i \in 0..(Len(refList) - 1) :
           Outcome(LGetItem(plist, i)) = <<"ok", refList[i + 1]>>

\* insert(0, x) into a list that already held two elements, all kept in order.
C3_Witness ==
    /\ last.op = "insert" /\ last.key = 0 /\ last.exc = "ok"
    /\ Len(refList) >= 3
    /\ refList[1] = last.val /\ refList[2] # refList[3]
    /\ \A i \in 0..(Len(refList) - 1) :
           Outcome(LGetItem(plist, i)) = <<"ok", refList[i + 1]>>

----------------------------------------------------------------------------
(* Iteration of the keyed store *)

\* How many times an iteration (a function from the visited files) yields x.
Yields(it, x) == Cardinality({f \in DOMAIN it : it[f] = x})

\* C12: with a collision-free hash, items() yields the live (key, value) pairs,
\* each exactly once, and nothing else (not the metadata record, not a
\* directory); keys() and values() yield their projections; the number of
\* items is length(); an empty store yields nothing.
C12_Iteration ==
    HashCollisionFree =>
        /\ Cardinality(ItemFiles(dict)) = Len_(dict)
        /\ Meta \notin ItemFiles(dict)
        /\ \A k \in DOMAIN live : Yields(Items(dict), <<k, live[k]>>) = 1
        /\ \A f \in ItemFiles(dict) :
               /\ Items(dict)[f][1] \in DOMAIN live
               /\ Items(dict)[f][2] = live[Items(dict)[f][1]]
        /\ \A k \in Keys : Yields(KeysIter(dict), k) = IF k \in DOMAIN live THEN 1 ELSE 0
        /\ \A v \in Values :
               Yields(ValuesIter(dict), v) = Cardinality({k \in DOMAIN live : live[k] = v})
        /\ DOMAIN live = {} => DOMAIN Items(dict) = {}

\* Two keys are live under the sharded hash, whose shard directory items()
\* must skip.
C12_Witness ==
    /\ hashKind = "sharded"
    /\ dict.dirs # {}
    /\ Cardinality(DOMAIN live) = 2
    /\ Cardinality(DOMAIN Items(dict)) = 2
    /\ last.op = "set" /\ ~last.had /\ last.exc = "ok"

----------------------------------------------------------------------------
(* Properties of the ordered store's single calls *)

\* The value in the entry file of position i.
ElemAt(st, i) == PickleLoads(st.files[ListFilePath(i)])

\* The entry files of a list of n elements.
Positions(n) == {ListFilePath(j) : j \in 0..(n - 1)}

\* C13: get(i) and set(i, v) act on position length+i for -length <= i < 0 and
\* on position i for 0 <= i < length; for any other index they raise
\* IndexError and change nothing; a valid set(i, v) changes position i only
\* and never the length.
C13_IndexedAccess ==
    [][last'.op \in {"lget", "lset"} =>
        LET n == Len_(plist)
            i == last'.key
            p == IF i < 0 THEN n + i ELSE i
        IN  IF 0 - n <= i /\ i < n
            THEN /\ last'.exc = "ok"
                 /\ Len_(plist') = n
                 /\ EntryFiles(plist') = EntryFiles(plist)
                 /\ last'.op = "lget" =>
                        plist' = plist /\ last'.ret = ElemAt(plist, p)
                 /\ last'.op = "lset" =>
                        /\ ElemAt(plist', p) = last'.val
                        /\ \A j \in (0..(n - 1)) \ {p} :
                               ElemAt(plist', j) = ElemAt(plist, j)
            ELSE last'.exc = "IndexError" /\ plist' = plist]_vars

\* set(-1, v) wrote the last of at least two positions.
C13_Witness ==
    /\ last.op = "lset" /\ last.key = 0 - 1 /\ last.exc = "ok"
    /\ Len_(plist) >= 2
    /\ ElemAt(plist, Len_(plist) - 1) = last.val
    /\ ElemAt(plist, 0) # last.val

\* C14: insert(i, v) never raises; with p = i (+ length if i < 0) clamped into
\* [0, length], afterwards v is at p, positions below p are unchanged, every
\* element formerly at j >= p is at j+1, and the length grew by exactly 1.
C14_Insert ==
    [][last'.op = "insert" =>
        LET n == Len_(plist)
            i == last'.key
            m == IF i < 0 THEN n + i ELSE i
            p == IF m < 0 THEN 0 ELSE IF m > n THEN n ELSE m
        IN  /\ last'.exc = "ok"
            /\ Len_(plist') = n + 1
            /\ EntryFiles(plist') = Positions(n + 1)
            /\ ElemAt(plist', p) = last'.val
            /\ \A j \in 0..(p - 1) : ElemAt(plist', j) = ElemAt(plist, j)
            /\ \A j \in p..(n - 1) : ElemAt(plist', j + 1) = ElemAt(plist, j)]_vars

\* insert(-1, v) put v before the last of what are now three elements.
C14_Witness ==
    /\ last.op = "insert" /\ last.key = 0 - 1 /\ last.exc = "ok"
    /\ Len_(plist) = 3
    /\ ElemAt(plist, 1) = last.val
    /\ ElemAt(plist, 2) # last.val

\* C15: on a non-empty store pop(i) with -length <= i < length returns the
\* element at the normalised position p, moves every element above p down by
\* one in order, leaves those below p alone, and shrinks the length by 1.
C15_PopValid ==
    [][(last'.op = "lpop" /\ 0 - Len_(plist) <= last'.key /\ last'.key < Len_(plist)) =>
        LET n == Len_(plist)
            i == last'.key
            p == IF i < 0 THEN n + i ELSE i
        IN  /\ last'.exc = "ok"
            /\ last'.ret = ElemAt(plist, p)
            /\ Len_(plist') = n - 1
            /\ EntryFiles(plist') = Positions(n - 1)
            /\ \A j \in 0..(p - 1) : ElemAt(plist', j) = ElemAt(plist, j)
            /\ \A j \in (p + 1)..(n - 1) : ElemAt(plist', j - 1) = ElemAt(plist, j)]_vars

\* pop(0) returned the first element and two different elements moved down.
C15_Witness ==
    /\ last.op = "lpop" /\ last.key = 0 /\ last.exc = "ok" /\ last.ret \in Values
    /\ Len_(plist) = 2
    /\ ElemAt(plist, 0) # ElemAt(plist, 1)

\* C16: pop on an empty store, or pop(i) with i < -length or i >= length,
\* raises IndexError and leaves every entry file and the length unchanged.
C16_PopFails ==
    [][(last'.op = "lpop" /\ (last'.key < 0 - Len_(plist) \/ last'.key >= Len_(plist))) =>
        last'.exc = "IndexError" /\ plist' = plist]_vars

\* pop(i) with i beyond the end failed on a store of two elements.
C16_Witness ==
    /\ last.op = "lpop" /\ last.exc = "IndexError"
    /\ Len_(plist) = 2 /\ last.key >= 2
    /\ EntryFiles(plist) = Positions(2)

\* C17: remove(v) deletes the first element equal to v, moving the later
\* elements (later equal ones included) down by one and shrinking the length
\* by 1; without an equal element it raises ValueError and changes nothing.
C17_Remove ==
    [][last'.op = "remove" =>
        LET n == Len_(plist)
            hits == {j \in 0..(n - 1) : ElemAt(plist, j) = last'.val}
        IN  IF hits = {}
            THEN last'.exc = "ValueError" /\ plist' = plist
            ELSE LET p == CHOOSE j \in hits : \A h \in hits : j <= h
                 IN  /\ last'.exc = "ok"
                     /\ Len_(plist') = n - 1
                     /\ EntryFiles(plist') = Positions(n - 1)
                     /\ \A j \in 0..(p - 1) : ElemAt(plist', j) = ElemAt(plist, j)
                     /\ \A j \in (p + 1)..(n - 1) :
                            ElemAt(plist', j - 1) = ElemAt(plist, j)]_vars

\* remove(v) took the first v of [v, w, v]: the later v is still there, last.
C17_Witness ==
    /\ last.op = "remove" /\ last.exc = "ok"
    /\ Len_(plist) = 2
    /\ ElemAt(plist, 0) # last.val
    /\ ElemAt(plist, 1) = last.val

\* C18: append(v) stores v at the position equal to the former length, adds 1
\* to the length and leaves every existing position alone; extend(values) has
\* the effect of appending each item in order (the items of the call are the
\* tail the reference list gained).
C18_AppendExtend ==
    [][/\ last'.op = "append" =>
              LET n == Len_(plist)
              IN  /\ last'.exc = "ok"
                  /\ Len_(plist') = n + 1
                  /\ EntryFiles(plist') = Positions(n + 1)
                  /\ ElemAt(plist', n) = last'.val
                  /\ \A j \in 0..(n - 1) : ElemAt(plist', j) = ElemAt(plist, j)
       /\ last'.op = "extend" =>
              LET n == Len_(plist)
                  k == last'.key
              IN  /\ last'.exc = "ok"
                  /\ Len(refList') = Len(refList) + k
                  /\ Len_(plist') = n + k
                  /\ EntryFiles(plist') = Positions(n + k)
                  /\ \A j \in 0..(n - 1) : ElemAt(plist', j) = ElemAt(plist, j)
                  /\ \A j \in 1..k :
                         ElemAt(plist', n + j - 1) = refList'[Len(refList) + j]]_vars

\* extend() added two different items, in order, behind an existing element.
C18_Witness ==
    /\ last.op = "extend" /\ last.key = 2 /\ last.exc = "ok"
    /\ Len_(plist) = 3
    /\ ElemAt(plist, 1) # ElemAt(plist, 2)
    /\ ElemAt(plist, 1) = refList[2] /\ ElemAt(plist, 2) = refList[3]

----------------------------------------------------------------------------
(* Bulk update of the keyed store *)

\* C11: under a collision-free hash, update(source) with a mapping, an
\* iterable of pairs, another store or named bindings succeeds; afterwards
\* get(k) is the value of the last source pair for every source key k, every
\* other key reads as before, and the length grew by the number of source
\* keys that were not in the store.
C11_Update ==
    [][(last'.op = "update" /\ HashCollisionFree) =>
        LET binds == last'.val.binds
        IN  /\ last'.exc = "ok"
            /\ \A k \in DOMAIN binds :
                   Outcome(GetItem(dict', k)) = <<"ok", binds[k]>>
            /\ \A k \in Keys \ DOMAIN binds :
                   Outcome(GetItem(dict', k)) = Outcome(GetItem(dict, k))
            /\ Len_(dict') =
                   Len_(dict) + Cardinality({k \in DOMAIN binds : ~Contains(dict, k)})]_vars

\* An iterable that names one key twice with different values updated a
\* store that keeps another key; the later value is the one read.
C11_Witness ==
    /\ last.op = "update" /\ last.dflt = "pairs" /\ last.exc = "ok"
    /\ hashKind = "sharded"
    /\ last.key = 2
    /\ \E k \in DOMAIN last.val.binds :
           /\ \E p \in last.val.shadowed : p[1] = k /\ p[2] # last.val.binds[k]
           /\ Outcome(GetItem(dict, k)) = <<"ok", last.val.binds[k]>>
    /\ Len_(dict) = 2

----------------------------------------------------------------------------
(* clear() of either store *)

\* C19: clear() of either store, from any state: afterwards the length is 0,
\* no entry file or directory remains, no key is contained or readable and no
\* position is readable; the store stays writable: a set or an append right
\* after it succeeds and makes the length 1.
C19_Clear ==
    [][/\ last'.op = "clear" =>
              /\ last'.exc = "ok"
              /\ Len_(dict') = 0
              /\ EntryFiles(dict') = {} /\ dict'.dirs = {}
              /\ ItemFiles(dict') = {}
              /\ \A k \in Keys :
                     /\ ~Contains(dict', k)
                     /\ GetItem(dict', k).exc = "KeyError"
       /\ last'.op = "lclear" =>
              /\ last'.exc = "ok"
              /\ Len_(plist') = 0
              /\ EntryFiles(plist') = {}
              /\ \A i \in Indices : LGetItem(plist', i).exc = "IndexError"
       /\ (last.op = "clear" /\ last'.op = "set") =>
              /\ last'.exc = "ok"
              /\ Len_(dict') = 1
              /\ Outcome(GetItem(dict', last'.key)) = <<"ok", last'.val>>
       /\ (last.op = "lclear" /\ last'.op = "append") =>
              /\ last'.exc = "ok"
              /\ Len_(plist') = 1
              /\ Outcome(LGetItem(plist', 0)) = <<"ok", last'.val>>]_vars

\* clear() emptied a keyed store that held entries in a shard directory.
C19_Witness ==
    /\ last.op = "clear" /\ last.had /\ last.exc = "ok"
    /\ hashKind = "sharded"
    /\ Len_(dict) = 0 /\ dict.dirs = {}

----------------------------------------------------------------------------
(* delete() of either store *)

\* C20: after delete() the root is gone for good and every later call through
\* the object (length, get, getOr, contains, pop, set, append, insert,
\* iteration) fails: none succeeds and none recreates the root.
C20_DeleteUnusable ==
    [][/\ (~dict.root /\ last'.op \in {"len", "get", "getOr", "contains", "pop", "set", "items"}) =>
              last'.exc # "ok" /\ ~dict'.root
       /\ (~plist.root /\ last'.op \in {"llen", "lget", "lset", "append", "insert", "lpop", "iter"}) =>
              last'.exc # "ok" /\ ~plist'.root]_vars

----------------------------------------------------------------------------
(* Construction of a store object *)

\* C21: constructing a store on a root that does not exist creates the root
\* and a metadata record with length 0 and the root path: len() is 0 and the
\* store holds no entry.
C21_Bootstrap ==
    [][/\ (last'.op = "new" /\ ~dict.root) =>
              /\ dict'.root
              /\ Outcome(LenCall(dict')) = <<"ok", 0>>
              /\ dict'.metaRoot = RootPath
              /\ EntryFiles(dict') = {} /\ dict'.dirs = {}
              /\ ItemFiles(dict') = {}
              /\ \A k \in Keys : ~Contains(dict', k)
       /\ (last'.op = "lnew" /\ ~plist.root) =>
              /\ plist'.root
              /\ Outcome(LenCall(plist')) = <<"ok", 0>>
              /\ plist'.metaRoot = RootPath
              /\ EntryFiles(plist') = {}]_vars

\* A second object was constructed after the first had deleted the root.
C21_Witness ==
    /\ last.op = "new" /\ ~last.had
    /\ Cardinality(opened) = 2
    /\ dict.root /\ Len_(dict) = 0

\* C22: constructing a store object on a root that holds a store changes
\* neither the metadata nor any entry, so the new object reads the length and
\* every key or position as before; a write through any object is on the
\* root, where every object reads it.
C22_Reopen ==
    [][/\ (last'.op = "new" /\ dict.root) =>
              /\ dict' = dict
              /\ Outcome(LenCall(dict')) = Outcome(LenCall(dict))
              /\ \A k \in Keys : Outcome(GetItem(dict', k)) = Outcome(GetItem(dict, k))
       /\ (last'.op = "lnew" /\ plist.root) =>
              /\ plist' = plist
              /\ Outcome(LenCall(plist')) = Outcome(LenCall(plist))
              /\ \A i \in Indices : Outcome(LGetItem(plist', i)) = Outcome(LGetItem(plist, i))
       /\ (last'.op = "set" /\ last'.exc = "ok") =>
              Outcome(GetItem(dict', last'.key)) = <<"ok", last'.val>>
       /\ (last'.op = "append" /\ last'.exc = "ok") =>
              Outcome(LGetItem(plist', Len_(plist') - 1)) = <<"ok", last'.val>>]_vars

\* A second object was constructed on a root that holds two entries.
C22_Witness ==
    /\ last.op = "new" /\ last.had
    /\ Cardinality(opened) = 2
    /\ hashKind = "sharded"
    /\ Len_(dict) = 2 /\ Cardinality(EntryFiles(dict)) = 2

----------------------------------------------------------------------------
(* Properties of the CircularBuffer *)

\* C23: after any sequence of successful writes and reads, count is the
\* number of elements written minus the number returned by reads,
\* 0 <= count <= size, 0 <= r, w < size, and w = (r + count) mod size.
C23_CountAccounting ==
    /\ cbuf.count = cbHist.written - Len(cbHist.read)
    /\ 0 <= cbuf.count /\ cbuf.count <= cbuf.size
    /\ 0 <= cbuf.r /\ cbuf.r < cbuf.size
    /\ 0 <= cbuf.w /\ cbuf.w < cbuf.size
    /\ cbuf.w = (cbuf.r + cbuf.count) % cbuf.size

\* A write that continued at the start of the array filled the buffer, so
\* w has wrapped round to r.
C23_Witness ==
    /\ last.op = "write" /\ last.exc = "ok" /\ last.had
    /\ cbuf.size = MaxSize
    /\ cbuf.count = cbuf.size
    /\ cbuf.w = cbuf.r /\ cbuf.r > 0

\* C24: the elements returned by the reads, in order, are the first elements
\* written, in order: none lost, repeated, reordered or never written.
C24_Fifo ==
    /\ Len(cbHist.read) <= cbHist.written
    /\ \A i \in 1..Len(cbHist.read) : cbHist.read[i] = i
    /\ last.op = "read" =>
           /\ Len(last.ret) <= last.key
           /\ \A i \in 1..Len(last.ret) :
                  last.ret[i] = Len(cbHist.read) - Len(last.ret) + i

\* A read returned elements from the end and from the start of the array.
C24_Witness ==
    /\ last.op = "read" /\ last.exc = "ok" /\ last.had
    /\ Len(last.ret) >= 2
    /\ cbuf.size = MaxSize
    /\ Len(cbHist.read) > cbuf.size

\* The unread elements of a buffer, oldest first.
Unread(b) == [i \in 1..b.count |-> b.buf[(b.r + i - 1) % b.size]]

\* C36: write(data) with len(data) > size - count raises ValueError and
\* leaves r, w, count and the unread elements as they were; no synchronous
\* write, failed or not, changes an element that is still unread.
C36_WriteOverflow ==
    [][last'.op = "write" =>
           /\ last'.key > cbuf.size - cbuf.count =>
                  /\ last'.exc = "ValueError"
                  /\ cbuf'.r = cbuf.r /\ cbuf'.w = cbuf.w /\ cbuf'.count = cbuf.count
                  /\ Unread(cbuf') = Unread(cbuf)
                  /\ cbHist' = cbHist
           /\ cbuf'.count >= cbuf.count
           /\ cbuf'.r = cbuf.r
           /\ SubSeq(Unread(cbuf'), 1, cbuf.count) = Unread(cbuf)]_vars

\* A write of one element more than the free space was refused on a buffer
\* that holds unread elements across the end of the array.
C36_Witness ==
    /\ last.op = "write" /\ last.exc = "ValueError"
    /\ cbuf.count > 0 /\ cbuf.count < cbuf.size
    /\ last.key = cbuf.size - cbuf.count + 1
    /\ cbuf.r + cbuf.count > cbuf.size

\* C37: under every interleaving of try_write, notify and read, _write runs
\* only with len(data) <= size - count at that moment, count never exceeds
\* size, and the elements that were unread stay as they were.
C37_TryWriteNeverOverflows ==
    [][last'.op = "try_write" /\ cbHist'.written # cbHist.written =>
           /\ last'.key <= cbuf.size - cbuf.count
           /\ cbuf'.count = cbuf.count + last'.key
           /\ cbuf'.count <= cbuf'.size
           /\ cbuf'.r = cbuf.r
           /\ SubSeq(Unread(cbuf'), 1, cbuf.count) = Unread(cbuf)]_vars

\* A try_write that had to wait has filled the buffer across the end of the
\* array while the other try_write is still waiting for space.
C37_Witness ==
    /\ proc.running = None
    /\ last.op = "try_write" /\ last.had /\ last.key > 0
    /\ cbuf.count = cbuf.size
    /\ cbuf.w > 0
    /\ \E t \in BufWriters : proc.tasks[t].pc = "waiting"

\* How often a node stands among the children of its parent.
Occurrences(t, n) ==
    Cardinality({i \in DOMAIN t.children[t.parent[n]] : t.children[t.parent[n]][i] = n})

\* C39: after any sequence of insert, pop, rename_node and assignments of a
\* node's index, the names in the name index are the names of the nodes
\* reached from the root (the node the tree looks up under its name, where
\* iteration starts) through children, every key of the name index is the
\* name of its node, and every node with a parent stands exactly once among
\* the children of its parent.
C39_IndexConsistency ==
    /\ TreeContains(tree, tree.name)
    /\ Traverse(tree, tree.name) = Nodes(tree)
    /\ DOMAIN tree.children = Nodes(tree)
    /\ \A n \in Nodes(tree) :
           /\ tree.parent[n] # NoParent =>
                  /\ TreeContains(tree, tree.parent[n])
                  /\ Occurrences(tree, n) = 1
           /\ \A i \in DOMAIN tree.children[n] :
                  /\ TreeContains(tree, tree.children[n][i])
                  /\ tree.parent[tree.children[n][i]] = n

\* What holds of a call of run at every moment.
RunProtocol(run) ==
    /\ run.attempts <= N_RETRIES
    /\ run.attempts = run.i
    /\ run.failed + (IF run.completed \/ run.pc = "try" \/ run.exc = "Exception" THEN 1 ELSE 0)
           = run.attempts
    /\ run.errors = run.failed - (IF run.pc = "except" THEN 1 ELSE 0)
    /\ run.refreshes <= 1
    /\ run.refreshes = 1 => run.completed
    /\ run.pc = "done" => run.completed /\ run.refreshes = 1 /\ run.exc = "ok"
    /\ run.completed /\ run.pc = "raised" =>
           run.refreshes = 1 /\ run.exc = "InvalidSessionException"
    /\ run.exc = "OSError" <=> (run.pc = "raised" /\ run.failed = N_RETRIES)
    /\ run.failed = N_RETRIES => run.refreshes = 0 /\ ~run.completed

\* C40: run makes at most N_RETRIES attempts; an attempt that ends with a
\* connection error yields exactly one error message and, while attempts
\* remain, another attempt follows; the first attempt without a connection
\* error ends the loop and exactly one refresh follows; after N_RETRIES failed
\* attempts run raises OSError without a refresh.
C40_RetryProtocol ==
    [][/\ RunProtocol(proc')
       /\ proc.pc = "except" => proc'.errors = proc.errors + 1 /\ proc'.pc = "for"
       /\ proc.pc = "for" /\ proc.failed < N_RETRIES =>
              proc'.pc = "try" /\ proc'.attempts = proc.attempts + 1
       /\ proc.pc = "for" /\ proc.failed = N_RETRIES => proc'.pc = "else"
       /\ proc.pc = "else" => proc'.exc = "OSError" /\ proc'.pc = "raised"
       /\ proc'.completed /\ ~proc.completed => proc'.pc = "refresh"
       /\ proc.pc = "refresh" => proc'.refreshes = 1 /\ proc'.pc \in {"done", "raised"}
       /\ proc.pc \in {"done", "raised"} => FALSE]_vars

\* All N_RETRIES attempts failed and run raised OSError.
C40_Witness ==
    /\ proc.pc = "raised" /\ proc.exc = "OSError"
    /\ proc.attempts = N_RETRIES /\ proc.errors = N_RETRIES
    /\ proc.refreshes = 0

\* A try_write waits on the condition although its data fits.
WaitsWithSpace(t) ==
    /\ proc.tasks[t].pc = "waiting"
    /\ proc.tasks[t].n <= cbuf.size - cbuf.count

\* C38: under fair scheduling, a try_write that waits for space while the
\* reads have freed enough space for its data is woken: the read that frees
\* the space is by itself sufficient, so the try_write stops waiting.
C38_ReadWakesWriter ==
    \A t \in BufWriters : WaitsWithSpace(t) ~> (proc.tasks[t].pc # "waiting")

\* The nodes on the way from a node up to the root, the node excluded.
RECURSIVE Above(_, _)
Above(t, n) ==
    IF t.parent[n] = NoParent THEN {} ELSE {t.parent[n]} \cup Above(t, t.parent[n])

Descendants(t, n) == {m \in Nodes(t) : n \in Above(t, m)}

\* A sequence without the entries equal to n.
Without(seq, n) == SelectSeq(seq, LAMBDA m : m # n)

\* C25: pop(name) of a node with a parent removes the node and all of its
\* descendants from the tree and the node from its parent's children, and
\* every other node keeps its parent and its children in order; pop of the
\* root raises ValueError and pop of an unknown name raises KeyError, and both
\* leave the tree as it was.
C25_Pop ==
    [][last'.op = "pop" =>
        LET n == last'.key
        IN  IF ~TreeContains(tree, n)
            THEN last'.exc = "KeyError" /\ tree' = tree
            ELSE IF tree.parent[n] = NoParent
            THEN last'.exc = "ValueError" /\ tree' = tree
            ELSE /\ last'.exc = "ok"
                 /\ Nodes(tree') = Nodes(tree) \ ({n} \cup Descendants(tree, n))
                 /\ \A m \in Nodes(tree') :
                        /\ tree'.parent[m] = tree.parent[m]
                        /\ tree'.children[m] = Without(tree.children[m], n)
                 /\ tree'.name = tree.name /\ tree'.max_depth = tree.max_depth]_vars

\* A node with children has been popped, and a node remains beside the root.
C25_Witness ==
    /\ last.op = "pop" /\ last.exc = "ok" /\ last.had
    /\ Cardinality(Nodes(tree)) = 2

\* Where list.insert(index, x) puts x in a list of n entries; None appends.
Place(index, n) ==
    IF index = NoIndex THEN n
    ELSE IF index[1] < 0 THEN (IF n + index[1] < 0 THEN 0 ELSE n + index[1])
    ELSE IF index[1] > n THEN n ELSE index[1]

\* C26: an insert, or an item assignment, of a node whose name is already in
\* the tree raises ValueError, and under a parent name that is not in the tree
\* it raises KeyError (the parent is looked up first); both leave the nodes
\* and every children list unchanged.  A successful insert adds exactly that
\* one node, as the last child of the parent or at the given index.
C26_Insert ==
    [][last'.op \in {"insert", "setitem"} =>
        LET parent_name == last'.key
            node_name == IF last'.op = "insert" THEN last'.val ELSE last'.dflt
            index == IF last'.op = "insert" THEN last'.dflt ELSE NoIndex
            old == tree.children[parent_name]
        IN  IF last'.op = "setitem" /\ last'.val # node_name
            THEN last'.exc = "ValueError" /\ tree' = tree
            ELSE IF ~TreeContains(tree, parent_name)
            THEN last'.exc = "KeyError" /\ tree' = tree
            ELSE IF TreeContains(tree, node_name)
            THEN last'.exc = "ValueError" /\ tree' = tree
            ELSE IF last'.exc # "ok"
            THEN last'.exc = "MaxDepthExceededError" /\ tree' = tree
            ELSE /\ Nodes(tree') = Nodes(tree) \cup {node_name}
                 /\ tree'.parent[node_name] = parent_name
                 /\ tree'.children[node_name] = <<>>
                 /\ Len(tree'.children[parent_name]) = Len(old) + 1
                 /\ Without(tree'.children[parent_name], node_name) = old
                 /\ Index(tree', node_name) = Place(index, Len(old))
                 /\ \A m \in Nodes(tree) :
                        /\ tree'.parent[m] = tree.parent[m]
                        /\ m # parent_name => tree'.children[m] = tree.children[m]]_vars

\* A node has been inserted at index 0 in front of two children, and then a
\* second insert of its name has been refused.
C26_Witness ==
    /\ last.op = "insert" /\ last.exc = "ValueError" /\ last.had
    /\ TreeContains(tree, last.key)
    /\ Len(tree.children["r"]) = 3

\* C27: whenever max_depth is not None, every node of the tree is at a depth
\* of at most max_depth.
C27_DepthBound ==
    tree.max_depth # NoDepth => \A n \in Nodes(tree) : Depth(tree, n) <= tree.max_depth

\* The node without a parent.
RootNode(t) == CHOOSE n \in Nodes(t) : t.parent[n] = NoParent

\* rename_node(old, new): ValueError and no change when another node has the
\* new name; otherwise the node is found under new and no longer under old,
\* with the parent, the children and the position it had.
RenameNodeKeeps ==
    last'.op = "rename_node" =>
        LET old == last'.key
            new == last'.val
        IN  IF ~TreeContains(tree, old)
            THEN last'.exc = "KeyError" /\ tree' = tree
            ELSE IF new # old /\ TreeContains(tree, new)
            THEN last'.exc = "ValueError" /\ tree' = tree
            ELSE /\ last'.exc = "ok"
                 /\ Nodes(tree') = (Nodes(tree) \ {old}) \cup {new}
                 /\ tree'.parent[new] = tree.parent[old]
                 /\ tree'.children[new] = tree.children[old]
                 /\ \A i \in 1..Len(tree.children[old]) :
                        tree'.parent[tree.children[old][i]] = new
                 /\ tree.parent[old] # NoParent => Index(tree', new) = Index(tree, old)

\* tree.name = new: the root node goes from its old name to the new one, the
\* root lookup self[self.name] finds it, and its children have it as parent.
SetNameRenamesRoot ==
    last'.op = "name" =>
        LET old == RootNode(tree)
            new == last'.val
        IN  IF new # old /\ TreeContains(tree, new)
            THEN last'.exc = "ValueError" /\ tree' = tree
            ELSE /\ last'.exc = "ok"
                 /\ Nodes(tree') = (Nodes(tree) \ {old}) \cup {new}
                 /\ tree'.name = new
                 /\ tree'.parent[tree'.name] = NoParent
                 /\ tree'.children[new] = tree.children[old]
                 /\ \A i \in 1..Len(tree.children[old]) :
                        tree'.parent[tree.children[old][i]] = new

\* C28: rename_node(old, new) with new used by another node raises ValueError
\* and changes nothing, and otherwise the node is found under new, not under
\* old, with parent, children and position intact; assigning tree.name renames
\* the root node, the root lookup follows, and the root's children still have
\* the root as parent.
C28_Rename == [][RenameNodeKeeps /\ SetNameRenamesRoot]_vars

\* The entry files are those of the positions 0..Len(ref)-1 and hold the
\* items of ref in order, and the length is Len(ref).
StoredAs(st, ref) ==
    /\ Len_(st) = Len(ref)
    /\ EntryFiles(st) = Positions(Len(ref))
    /\ \A p \in 0..(Len(ref) - 1) : ElemAt(st, p) = ref[p + 1]

\* C29: with a single writer, no rename of a shift, upwards for an insert or
\* downwards for a pop, finds a file at its destination path, and when the
\* insert or pop returns every element that was stored before it (the popped
\* one excepted) is stored at exactly one position, in the order it had.
C29_ShiftNeverOverwrites ==
    [][/\ last'.op = "rename" =>
            LET loc == proc[last'.dflt]
            IN  ~Exists(plist, ListFilePath(Head(loc.order) + loc.shift))
       /\ last'.op = "write_meta" =>
            /\ StoredAs(plist', refList')
            /\ refList' = Completed(refList, proc[last'.dflt])]_vars

\* The shift of an insert has moved the file of the last position up and has
\* the one before still to move.
C29_Witness ==
    /\ last.op = "rename" /\ last.ret = "insert" /\ last.exc = "ok"
    /\ proc[last.dflt].order # <<>>

\* C30: _len_delta writes the length it read earlier plus one, also when the
\* other writer has changed the length in between; the length never exceeds
\* the appends that have returned plus those under way.
C30_LostLengthUpdate ==
    [][/\ last'.op = "write_meta" =>
            /\ Len_(plist') = proc[last'.dflt].meta + 1
            /\ Len(refList') = Len(refList) + 1
       /\ Len_(plist') <= Len(refList') + Cardinality(Busy')]_vars

\* Both writers have appended and returned, and the length is 1.
C30_Witness ==
    /\ Busy = {}
    /\ Len(refList) = 2
    /\ Len_(plist) = 1
    /\ last.op = "write_meta" /\ last.had

\* C31: when a single writer has made its call of append, insert or pop, the
\* entry positions are exactly 0..length-1 and hold the elements stored
\* before, with the inserted one added or the popped one removed.  With two
\* writers whose calls interleave this fails (the witness).
C31_ShiftRaces ==
    (Cardinality(DOMAIN proc) = 1 /\ Busy = {}) => StoredAs(plist, refList)

\* Two writers have both made their call, an insert or a pop, and the entry
\* positions are not 0..length-1: a position below an entry file has no file.
C31_Witness ==
    /\ DOMAIN proc = {"w1", "w2"}
    /\ \A w \in DOMAIN proc : proc[w].pc = "done" /\ proc[w].op \in {"insert", "pop"}
    /\ EntryFiles(plist) # Positions(Len_(plist))
    /\ \E p \in 1..MaxLen :
        ListFilePath(p) \in EntryFiles(plist) /\ ListFilePath(p - 1) \notin EntryFiles(plist)

\* The distance between the recorded length and the number of entry files.
LengthOff(st) ==
    IF Len_(st) >= Cardinality(EntryFiles(st))
    THEN Len_(st) - Cardinality(EntryFiles(st))
    ELSE Cardinality(EntryFiles(st)) - Len_(st)

\* The positions in 0..max(length, file count)-1 that have no entry file.
Gaps(st) ==
    LET n == IF Len_(st) >= Cardinality(EntryFiles(st))
             THEN Len_(st) ELSE Cardinality(EntryFiles(st))
    IN  {p \in 0..(n - 1) : ListFilePath(p) \notin EntryFiles(st)}

\* C32: at every step of a single call made by a single writer on a store
\* whose length is the number of its entry files (set and pop of the keyed
\* store; append, insert and pop of the ordered store, each rename of a
\* shift included), the recorded length and the number of entry files differ
\* by at most 1, and the ordered store has at most one gap.
C32_TransientBound ==
    /\ LengthOff(dict) <= 1
    /\ LengthOff(plist) <= 1
    /\ Cardinality(Gaps(plist)) <= 1

\* A pop is in the middle of its shift: the gap it made has moved up, a file
\* is still to be renamed, and the length is one more than the entry files.
C32_Witness ==
    /\ proc["w1"].op = "pop" /\ proc["w1"].pc = "exists"
    /\ last.op = "rename"
    /\ LengthOff(plist) = 1
    /\ Cardinality(Gaps(plist)) = 1

\* The key recorded in the entry file at fp.
KeyAt(st, fp) == ModelValidate(PickleLoads(st.files[fp])).key

\* C33: whatever the hash, pop(key) deletes no entry that was stored under
\* another key, returns no value of such an entry, and leaves length() alone
\* for a key that was not set.
C33_PopKeyIdentity ==
    [][last'.op = "pop" =>
        /\ \A fp \in EntryFiles(dict) \ EntryFiles(dict') : KeyAt(dict, fp) = last'.key
        /\ (last'.exc = "ok" /\ GetFilePath(last'.key) \in EntryFiles(dict)) =>
               KeyAt(dict, GetFilePath(last'.key)) = last'.key
        /\ last'.key \notin DOMAIN live => Len_(dict') = Len_(dict)]_vars

\* C34: a set of a key that is not present which raises before its entry
\* file is written leaves length() as it was, and still equal to the number
\* of entry files.
C34_FailedSetKeepsLength ==
    [][(last'.op = "set" /\ ~last'.had /\ last'.exc # "ok") =>
        /\ EntryFiles(dict') = EntryFiles(dict)
        /\ Len_(dict') = Len_(dict)
        /\ Len_(dict) = Cardinality(EntryFiles(dict)) =>
               Len_(dict') = Cardinality(EntryFiles(dict'))]_vars

\* C35: after a store object is constructed on a root, absent before or a
\* directory without a metadata record, the metadata record is under the
\* root and len() returns a value, 0 when the root holds no entry.
C35_MetadataAfterOpen ==
    [][/\ last'.op = "new" =>
              /\ HasMeta(dict')
              /\ LenCall(dict').exc = "ok"
              /\ EntryFiles(dict') = {} => Outcome(LenCall(dict')) = <<"ok", 0>>
       /\ last'.op = "lnew" =>
              /\ HasMeta(plist')
              /\ LenCall(plist').exc = "ok"
              /\ EntryFiles(plist') = {} => Outcome(LenCall(plist')) = <<"ok", 0>>]_vars

====
